---- MODULE Spec2Model ----
(***************************************************************************)
(* Read-through enrichment cache of the enriched weather API:              *)
(* WeatherService.get_weather_data over WeatherRepository (the store),     *)
(* WeatherDataFetcher (upstream day-summary calls behind an AsyncLimiter)  *)
(* and WeatherDataProcessor.                                               *)
(*                                                                         *)
(* Dates are proleptic ordinals (date.toordinal()), so end - start is the  *)
(* timedelta in days.                                                      *)
(***************************************************************************)
EXTENDS Integers, Sequences, FiniteSets, Bags, TLC

----------------------------------------------------------------------------
\* Bounds of the model and program constants.

\* Requested and returned dates are the ordinals 1..MaxDate.
MaxDate == 2

\* At most MaxCalls invocations of get_weather_data start in one behaviour of
\* concurrent requests, at most MaxSeqCalls in one of sequential calls.
MaxCalls == 3
MaxSeqCalls == 2

\* settings.weather_service_max_date_range
weather_service_max_date_range == 31

\* Concurrent request slots: each runs one get_weather_data at a time, with a
\* database session and a WeatherDataFetcher of its own (FastAPI Depends()).
Procs == {1, 2}

\* Requested coordinates, and the coordinates an upstream document can carry.
Lats == {40}
Lons == {-74}
PayloadLats == {40, 41}
Dates == 1..MaxDate

\* An end date further than MAX_DATE_RANGE from every start date of Dates.
FarDate == MaxDate + weather_service_max_date_range + 1

----------------------------------------------------------------------------
\* Sequence helpers.

Range(s) == {s[i] : i \in 1..Len(s)}

\* The bag of the elements of a sequence.
SeqToBag(s) ==
    [x \in Range(s) |-> Cardinality({i \in 1..Len(s) : s[i] = x})]

\* The bag B restricted to the elements of the set S.
BagFilter(B, S) ==
    [x \in DOMAIN B \cap S |-> B[x]]

\* All the orders in which the elements of the bag B can be listed.
RECURSIVE Orders(_)
Orders(B) ==
    IF DOMAIN B = {} THEN {<<>>}
    ELSE UNION {{<<x>> \o s : s \in Orders(B (-) SetToBag({x}))} :
                    x \in DOMAIN B}

\* sorted(S) for a set of integers: ascending, each element once.
RECURSIVE sorted(_)
sorted(S) ==
    IF S = {} THEN <<>>
    ELSE LET m == CHOOSE x \in S : \A y \in S : x <= y
         IN <<m>> \o sorted(S \ {m})

\* list.sort(key=lambda x: x.date): a stable sort, rows of equal date keep
\* their relative order (insertion of each row after the last row whose date
\* is not greater).
RECURSIVE sort_by_date(_)
sort_by_date(rows) ==
    IF rows = <<>> THEN <<>>
    ELSE LET n    == Len(rows)
             head == sort_by_date(SubSeq(rows, 1, n - 1))
             x    == rows[n]
             k    == Cardinality({i \in 1..Len(head) : head[i].date <= x.date})
         IN SubSeq(head, 1, k) \o <<x>> \o SubSeq(head, k + 1, Len(head))

----------------------------------------------------------------------------
\* WeatherService._validate_date_range

MAX_DATE_RANGE == weather_service_max_date_range

\* The check on the distance between the dates in either direction.
validate_date_range_abs(start_date, end_date) ==
    \/ end_date - start_date > MAX_DATE_RANGE
    \/ start_date - end_date > MAX_DATE_RANGE

\* TRUE when the call raises WeatherServiceInputError.
validate_date_range(start_date, end_date) ==
    end_date - start_date > MAX_DATE_RANGE

\* The message of the WeatherServiceInputError: it carries MAX_DATE_RANGE.days.
DateRangeMessage ==
    [text |-> "Date range exceeds maximum allowed", days |-> MAX_DATE_RANGE]

----------------------------------------------------------------------------
\* The upstream day-summary exchange and WeatherDataFetcher.

\* Python values that end up in an error entry's "message": a str or the
\* dict that response.json() decodes.
PyStr(s)  == [t |-> "str", v |-> s]
PyDict(s) == [t |-> "dict", v |-> s]

\* Response bodies.  A day-summary document carries lat, lon and date; any
\* other body is text.
PayloadBody(lat, lon, day) ==
    [type |-> "day_summary", text |-> "", lat |-> lat, lon |-> lon, date |-> day]
TextBody(text) ==
    [type |-> "text", text |-> text, lat |-> 0, lon |-> 0, date |-> 0]

ErrorBodyJson == "{cod: 400, message: wrong latitude}"
ErrorBodyHtml == "<html>400 Bad Request</html>"

\* The texts that are JSON documents.
JsonTexts == {ErrorBodyJson}

\* What one upstream exchange (client.get) can end in: a transport failure
\* (timeout, connection error), or a response with a status and a body.
Transport(text) == [net |-> "error", status |-> 0, body |-> TextBody(text)]
Http(status, body) == [net |-> "response", status |-> status, body |-> body]

HTTP_400_BAD_REQUEST == 400

\* The outcome asyncio.gather(return_exceptions=True) holds for one day: the
\* WeatherDailySummaryResult, or the exception the unit raised.
Ok(payload) ==
    [kind |-> "ok", status |-> 200, body |-> payload, text |-> ""]
Raised(kind, status, body, text) ==
    [kind |-> kind, status |-> status, body |-> body, text |-> text]

\* WeatherDataFetcher._fetch_single_day on the exchange u: client.get raises
\* on a transport failure, raise_for_status raises HTTPStatusError on a
\* non-2xx status, model_validate_json raises ValidationError on a body that
\* is no day-summary document.  text is str(exception).
fetch_single_day(u) ==
    IF u.net = "error"
    THEN Raised("TransportError", 0, u.body, u.body.text)
    ELSE IF ~(u.status \in 200..299)
    THEN Raised("HTTPStatusError", u.status, u.body, "error response for url")
    ELSE IF u.body.type /= "day_summary"
    THEN Raised("ValidationError", u.status, u.body,
                "validation error for WeatherDailySummaryResult")
    ELSE Ok(u.body)

\* response.json(): defined on JSON documents only (JSONDecodeError otherwise).
json_decodes(body) == body.type = "day_summary" \/ body.text \in JsonTexts
response_json(body) == PyDict(body.text)

GenericFetchError == "Error fetching weather daily summary from API"

\* The error message fetch_weather_data builds for an exception result
\* (lines 58-64); for an HTTP 400 it is response.json() and needs
\* json_decodes(result.body).
error_msg(result) ==
    IF result.kind = "HTTPStatusError"
    THEN IF result.status = HTTP_400_BAD_REQUEST
         THEN response_json(result.body)
         ELSE PyStr(GenericFetchError)
    ELSE PyStr(result.text)

\* TRUE when building the message of this result raises JSONDecodeError.
error_msg_raises(result) ==
    /\ result.kind = "HTTPStatusError"
    /\ result.status = HTTP_400_BAD_REQUEST
    /\ ~json_decodes(result.body)

\* WeatherDataFetcher.fetch_weather_data after the gather: results[i] is the
\* outcome for dates[i].  The loop walks the pairs in order; an exception
\* result becomes {"date": day, "message": error_msg}, any other result is
\* appended to api_results.  A message that cannot be built raises out of the
\* whole call.
RECURSIVE collect(_, _, _)
collect(results, dates, n) ==
    IF n = 0
    THEN [raised |-> FALSE, api_results |-> <<>>, api_errors |-> <<>>]
    ELSE LET acc == collect(results, dates, n - 1)
             r   == results[n]
         IN IF acc.raised THEN acc
            ELSE IF r.kind = "ok"
            THEN [acc EXCEPT !.api_results = Append(@, r.body)]
            ELSE IF error_msg_raises(r)
            THEN [acc EXCEPT !.raised = TRUE]
            ELSE [acc EXCEPT !.api_errors =
                      Append(@, [date |-> dates[n], message |-> error_msg(r)])]

\* fetch_weather_data that sorts its outcomes by date before returning.
fetch_weather_data_sorted(dates, results) ==
    LET n   == IF Len(results) < Len(dates) THEN Len(results) ELSE Len(dates)
        out == collect(results, dates, n)
    IN [out EXCEPT !.api_results = sort_by_date(@),
                   !.api_errors = sort_by_date(@)]

fetch_weather_data(dates, results) ==
    collect(results, dates, IF Len(results) < Len(dates) THEN Len(results)
                            ELSE Len(dates))

----------------------------------------------------------------------------
\* WeatherDataProcessor.process_data and the store.

\* process_data that keeps the first record's row alone.
process_data_first(raw_data) ==
    [i \in 1..(IF raw_data = <<>> THEN 0 ELSE 1) |->
        [latitude  |-> raw_data[i].lat,
         longitude |-> raw_data[i].lon,
         date      |-> raw_data[i].date]]

\* One enriched row per raw record, in order; latitude, longitude and date
\* are taken from the record's lat, lon and date.
process_data(raw_data) ==
    [i \in 1..Len(raw_data) |->
        [latitude  |-> raw_data[i].lat,
         longitude |-> raw_data[i].lon,
         date      |-> raw_data[i].date]]

\* WeatherDailySummary(**processed_row).  The autoincrement id is the only
\* column that tells two rows of equal content apart and nothing reads it:
\* it is left out, and the table is a bag of rows.
WeatherDailySummary(processed_row) ==
    [latitude  |-> processed_row.latitude,
     longitude |-> processed_row.longitude,
     date      |-> processed_row.date]

\* WeatherSummaryResponse.model_validate(row): the schema's fields of the row
\* (the schema has no id).
WeatherSummaryResponse(row) ==
    [date |-> row.date, latitude |-> row.latitude, longitude |-> row.longitude]

\* WeatherRepository.get_daily_summaries: the rows the query selects.
get_daily_summaries(rows, latitude, longitude, start_date, end_date) ==
    LET selected(r) == /\ r.latitude = latitude
                       /\ r.longitude = longitude
                       /\ r.date >= start_date
                       /\ r.date <= end_date
    IN BagFilter(rows, {r \in DOMAIN rows : selected(r)})

\* Every date of the range, stored or not (missing_dates without line 147's
\* test against the stored dates).
missing_dates_all(existing_summaries, start_date, end_date) ==
    sorted(start_date..end_date)

\* missing_dates in the order of a set difference that is not sorted (line
\* 148 without sorted): here, descending.
missing_dates_unsorted(existing_summaries, start_date, end_date) ==
    LET existing_dates == {existing_summaries[i].date :
                               i \in 1..Len(existing_summaries)}
        ascending      == sorted((start_date..end_date) \ existing_dates)
    IN [i \in 1..Len(ascending) |-> ascending[Len(ascending) + 1 - i]]

\* get_weather_data lines 143-148: the dates of [start, end] with no row.
missing_dates(existing_summaries, start_date, end_date) ==
    LET existing_dates == {existing_summaries[i].date :
                               i \in 1..Len(existing_summaries)}
        all_dates      == start_date..end_date
    IN sorted(all_dates \ existing_dates)

----------------------------------------------------------------------------
\* State.

VARIABLES
    store,      \* committed rows of weather_daily_summaries (a bag)
    calls,      \* invocations of get_weather_data started so far
    pc,         \* per slot: "idle", "fetching", "fetched", "returned", "raised"
    args,       \* per slot: latitude, longitude, start_date, end_date
    existing,   \* per slot: existing_summaries (the rows read, then extended)
    missing,    \* per slot: missing_dates, the dates requested upstream
    results,    \* per slot: the gather's outcome for each missing date
    fetched,    \* per slot: what fetch_weather_data returned
    pending,    \* per slot: rows flushed in the slot's session, not committed
                \* (a bag)
    response,   \* per slot: the WeatherServiceResponse returned
    exc,        \* per slot: the exception the call raised
    last,       \* history: the call that returned most recently, if no call
                \* raised since
    prior,      \* history, per slot: last when the slot's call started
    request,    \* per slot: the endpoint's latitude, longitude and location
                \* parameters (location alone for a direct call by name)
    geocoding,  \* per slot: how fetch_coordinates ended (kind) and the
                \* call's geocoding_results (candidates)
    did,        \* history, per slot: the effects the call has had so far
                \* ("geocode", "read", "fetch", "write")
    range_check,  \* _validate_date_range on its own: start_date, end_date
                  \* and what the function did
    fetch_check,  \* fetch_weather_data on its own: dates, the upstream's
                  \* answers, and what the function returned
    process_check,  \* process_data on its own: a raw record's fields and
                    \* the derived fields of its row
    enrich_check,   \* process_data on a batch: the raw records and the rows
                    \* of each run
    gather,         \* fetch_weather_data unit by unit: the dates, where each
                    \* day's unit stands, the gather's results, and what
                    \* the call ended in
    now,        \* the clock of the limiters, in leak intervals
    level,      \* per fetcher: the level of its limiter's bucket
    admitted    \* history: the calls the limiters admitted (a bag)

pipeline_vars ==
    <<store, calls, pc, args, existing, missing, results, fetched,
      pending, response, exc, last, prior, request, geocoding, did>>
check_vars ==
    <<range_check, fetch_check, process_check, enrich_check, gather>>
limiter_vars == <<now, level, admitted>>
vars == <<pipeline_vars, check_vars, limiter_vars>>

NoArgs == [latitude |-> 0, longitude |-> 0, start_date |-> 0, end_date |-> 0]
NoFetch == [raised |-> FALSE, api_results |-> <<>>, api_errors |-> <<>>]
NoResponse == [weather_data |-> <<>>, errors |-> <<>>, geocoding_results |-> <<>>]
NoExc == [type |-> "", text |-> "", days |-> 0]
NoGeocoding == [kind |-> "", candidates |-> <<>>]
NoCall == [args |-> NoArgs, requested |-> {}, failed |-> {}, stored |-> EmptyBag]

\* A parameter the endpoint was not given (Query default None): for latitude
\* and longitude a number no coordinate takes, for location a string apart.
NoCoordinate == 1000
NoLocation == "<None>"
NoRequest ==
    [latitude |-> NoCoordinate, longitude |-> NoCoordinate,
     location |-> NoLocation]

\* No request in flight.
SlotsIdle ==
    /\ calls = 0
    /\ pc = [p \in Procs |-> "idle"]
    /\ args = [p \in Procs |-> NoArgs]
    /\ existing = [p \in Procs |-> <<>>]
    /\ missing = [p \in Procs |-> <<>>]
    /\ results = [p \in Procs |-> <<>>]
    /\ fetched = [p \in Procs |-> NoFetch]
    /\ pending = [p \in Procs |-> EmptyBag]
    /\ response = [p \in Procs |-> NoResponse]
    /\ exc = [p \in Procs |-> NoExc]
    /\ last = NoCall
    /\ prior = [p \in Procs |-> NoCall]
    /\ request = [p \in Procs |-> NoRequest]
    /\ geocoding = [p \in Procs |-> NoGeocoding]
    /\ did = [p \in Procs |-> {}]

PipelineInit == store = EmptyBag /\ SlotsIdle

----------------------------------------------------------------------------
\* The upstream's answers to one day-summary request.

\* Any answer: a day-summary document with any lat, lon and date, a body that
\* is no day-summary document, an error status with a JSON or a non-JSON
\* body, or a transport failure.
AllUpstream(lat, lon, day) ==
    {Http(200, PayloadBody(a, o, d)) : a \in PayloadLats, o \in Lons, d \in Dates}
    \cup {Http(200, TextBody("not a day summary")),
          Http(400, TextBody(ErrorBodyJson)),
          Http(400, TextBody(ErrorBodyHtml)),
          Http(401, TextBody("{cod: 401, message: Invalid API key}")),
          Http(500, TextBody("Internal Server Error")),
          Transport("ReadTimeout: timed out")}

\* One answer for each path through fetch_weather_data: a document that
\* echoes the request, one with another lat, one with another date, an
\* HTTP 400 with a JSON and with a non-JSON body, and a transport failure.
AnyUpstream(lat, lon, day) ==
    {Http(200, PayloadBody(a, lon, day)) : a \in PayloadLats}
    \cup {Http(200, PayloadBody(lat, lon, d)) : d \in Dates}
    \cup {Http(400, TextBody(ErrorBodyJson)),
          Http(400, TextBody(ErrorBodyHtml)),
          Transport("ReadTimeout: timed out")}

\* An upstream that keeps to its API: a day-summary document echoes the
\* requested lat, lon and date, and error bodies are JSON documents.
EchoUpstream(lat, lon, day) ==
    {Http(200, PayloadBody(lat, lon, day)),
     Http(400, TextBody(ErrorBodyJson)),
     Transport("ReadTimeout: timed out")}

\* The answers to a request that carries no latitude or no longitude (the
\* endpoint was given one coordinate alone): no document, an error.
NoCoordinateUpstream ==
    {Http(400, TextBody(ErrorBodyJson)), Transport("ReadTimeout: timed out")}

\* The answers of the upstream named: "any" or "echo".
Upstream(upstream, lat, lon, day) ==
    IF lat = NoCoordinate \/ lon = NoCoordinate
    THEN NoCoordinateUpstream
    ELSE IF upstream = "echo"
    THEN EchoUpstream(lat, lon, day)
    ELSE AnyUpstream(lat, lon, day)

----------------------------------------------------------------------------
\* WeatherService.get_weather_data, one action per stretch between awaits.

\* The exception a failing store call raises.
StorageError == [type |-> "SQLAlchemyError", text |-> "connection refused",
                 days |-> 0]

\* A storage error turned into an errors entry of a returned response.
storage_failure_swallowed ==
    [pc |-> "returned", exc |-> NoExc,
     response |-> [weather_data |-> <<>>,
                   errors |-> <<[message |-> PyStr(StorageError.text)]>>,
                   geocoding_results |-> <<>>]]

\* How get_weather_data ends when get_daily_summaries (line 138) or
\* bulk_create_daily_summaries (line 165) raises: no try surrounds them, the
\* exception leaves the call and no response is built.
storage_failure ==
    [pc |-> "raised", exc |-> StorageError, response |-> NoResponse]

\* A call enters a free slot.
Begin(p, max_calls) ==
    /\ pc[p] = "idle"
    /\ calls < max_calls
    /\ calls' = calls + 1
    /\ prior' = [prior EXCEPT ![p] = last]

\* Lines 135-148: validation, then the store read (the session sees the
\* committed rows and its own flushed rows; the query has no ORDER BY, so the
\* rows come in any order), then the missing dates.  db_up says whether the
\* store answers the read; when it does not, the storage error leaves
\* get_weather_data as raised.  effects are the effects the same step had
\* before it entered get_weather_data.
ReadStage(p, latitude, longitude, start_date, end_date, db_up, effects) ==
    /\ args' = [args EXCEPT ![p] =
                   [latitude |-> latitude, longitude |-> longitude,
                    start_date |-> start_date, end_date |-> end_date]]
    /\ IF validate_date_range(start_date, end_date)
       THEN /\ pc' = [pc EXCEPT ![p] = "raised"]
            /\ exc' = [exc EXCEPT ![p] =
                          [type |-> "WeatherServiceInputError",
                           text |-> DateRangeMessage.text,
                           days |-> DateRangeMessage.days]]
            /\ did' = [did EXCEPT ![p] = @ \cup effects]
            /\ UNCHANGED <<existing, missing>>
            /\ UNCHANGED response
       ELSE IF ~db_up
       THEN /\ pc' = [pc EXCEPT ![p] = storage_failure.pc]
            /\ exc' = [exc EXCEPT ![p] = storage_failure.exc]
            /\ response' = [response EXCEPT ![p] = storage_failure.response]
            /\ did' = [did EXCEPT ![p] =
                          @ \cup effects \cup {"read", "read failed"}]
            /\ UNCHANGED <<existing, missing>>
       ELSE /\ \E rows \in Orders(get_daily_summaries(
                                    store (+) pending[p], latitude, longitude,
                                    start_date, end_date)) :
                  /\ existing' = [existing EXCEPT ![p] = rows]
                  /\ missing' = [missing EXCEPT ![p] =
                                    missing_dates(rows, start_date, end_date)]
            /\ pc' = [pc EXCEPT ![p] = "fetching"]
            /\ did' = [did EXCEPT ![p] = @ \cup effects \cup {"read"}]
            /\ UNCHANGED <<exc, response>>
    /\ UNCHANGED <<store, results, fetched, pending, last>>
    /\ UNCHANGED <<check_vars, limiter_vars>>

\* get_weather_data(latitude, longitude, start_date, end_date) called on
\* the service.
Start(p, latitude, longitude, start_date, end_date, max_calls) ==
    /\ Begin(p, max_calls)
    /\ ReadStage(p, latitude, longitude, start_date, end_date, TRUE, {})
    /\ UNCHANGED <<request, geocoding>>

\* Line 151: fetch_weather_data(latitude, longitude, missing_dates).  One
\* request per missing date; the gather waits for every unit, then the
\* outcomes are sorted into api_results and api_errors.
Fetch(p, upstream) ==
    /\ pc[p] = "fetching"
    /\ \E us \in [1..Len(missing[p]) ->
                     UNION {Upstream(upstream, args[p].latitude,
                                     args[p].longitude, d) :
                                d \in Range(missing[p])}] :
          /\ \A i \in 1..Len(missing[p]) :
                 us[i] \in Upstream(upstream, args[p].latitude,
                                    args[p].longitude, missing[p][i])
          /\ LET rs == [i \in 1..Len(missing[p]) |-> fetch_single_day(us[i])]
                 f  == fetch_weather_data(missing[p], rs)
             IN /\ results' = [results EXCEPT ![p] = rs]
                /\ fetched' = [fetched EXCEPT ![p] = f]
                /\ IF f.raised
                   THEN /\ pc' = [pc EXCEPT ![p] = "raised"]
                        /\ exc' = [exc EXCEPT ![p] =
                                      [type |-> "JSONDecodeError",
                                       text |-> "Expecting value",
                                       days |-> 0]]
                   ELSE /\ pc' = [pc EXCEPT ![p] = "fetched"]
                        /\ UNCHANGED exc
    /\ did' = [did EXCEPT ![p] =
                  IF missing[p] /= <<>> THEN @ \cup {"fetch"} ELSE @]
    /\ UNCHANGED <<store, calls, args, existing, missing, pending,
                   response, last, prior, request, geocoding>>
    /\ UNCHANGED <<check_vars, limiter_vars>>

\* Lines 156-187: process and flush the new rows (bulk_create_daily_summaries
\* adds them to the session and flushes), extend existing_summaries, sort by
\* date, build the response.  get_weather_data answers with no
\* geocoding_results; get_weather_data_by_name (line 109) then attaches its
\* own, which are empty in a call by coordinates.
Save(p) ==
    /\ pc[p] = "fetched"
    /\ LET api_results == fetched[p].api_results
           processed   == IF api_results /= <<>>
                          THEN process_data(api_results) ELSE <<>>
           saved       == [i \in 1..Len(processed) |->
                              WeatherDailySummary(processed[i])]
           combined    == sort_by_date(existing[p] \o saved)
       IN /\ pending' = [pending EXCEPT ![p] = @ (+) SeqToBag(saved)]
          /\ existing' = [existing EXCEPT ![p] = combined]
          /\ response' = [response EXCEPT ![p] =
                 [weather_data |-> [i \in 1..Len(combined) |->
                                       WeatherSummaryResponse(combined[i])],
                  errors |-> fetched[p].api_errors,
                  geocoding_results |-> geocoding[p].candidates]]
          /\ did' = [did EXCEPT ![p] =
                        IF api_results /= <<>> THEN @ \cup {"write"} ELSE @]
    /\ pc' = [pc EXCEPT ![p] = "returned"]
    /\ UNCHANGED <<store, calls, args, missing, results, fetched, exc, last,
                   prior, request, geocoding>>
    /\ UNCHANGED <<check_vars, limiter_vars>>

\* Lines 156-167 when bulk_create_daily_summaries raises: nothing is flushed.
SaveFails(p) ==
    /\ pc[p] = "fetched"
    /\ fetched[p].api_results /= <<>>
    /\ pc' = [pc EXCEPT ![p] = storage_failure.pc]
    /\ exc' = [exc EXCEPT ![p] = storage_failure.exc]
    /\ response' = [response EXCEPT ![p] = storage_failure.response]
    /\ did' = [did EXCEPT ![p] = @ \cup {"write", "write failed"}]
    /\ UNCHANGED <<store, calls, args, existing, missing, results, fetched,
                   pending, last, prior, request, geocoding>>
    /\ UNCHANGED <<check_vars, limiter_vars>>

\* What a finished call leaves for the next one to compare with.
FinishedCall(p, stored) ==
    [args |-> args[p], requested |-> Range(missing[p]),
     failed |-> {missing[p][i] : i \in {j \in 1..Len(results[p]) :
                                           results[p][j].kind /= "ok"}},
     stored |-> stored]

Reset(p) ==
    /\ pc' = [pc EXCEPT ![p] = "idle"]
    /\ args' = [args EXCEPT ![p] = NoArgs]
    /\ existing' = [existing EXCEPT ![p] = <<>>]
    /\ missing' = [missing EXCEPT ![p] = <<>>]
    /\ results' = [results EXCEPT ![p] = <<>>]
    /\ fetched' = [fetched EXCEPT ![p] = NoFetch]
    /\ pending' = [pending EXCEPT ![p] = EmptyBag]
    /\ response' = [response EXCEPT ![p] = NoResponse]
    /\ exc' = [exc EXCEPT ![p] = NoExc]
    /\ prior' = [prior EXCEPT ![p] = NoCall]
    /\ request' = [request EXCEPT ![p] = NoRequest]
    /\ geocoding' = [geocoding EXCEPT ![p] = NoGeocoding]
    /\ did' = [did EXCEPT ![p] = {}]

\* DatabaseSessionManager.session after the handler returned: commit.
\* (history says whether the behaviour keeps the history variables.)
Commit(p, history) ==
    /\ pc[p] = "returned"
    /\ store' = store (+) pending[p]
    /\ last' = IF history THEN FinishedCall(p, pending[p]) ELSE NoCall
    /\ Reset(p)
    /\ UNCHANGED <<calls, check_vars, limiter_vars>>

\* A rollback that also deletes the rows the call had read.
Rollback_deletes_read(p) ==
    /\ pc[p] = "raised"
    /\ store' = store (-) SeqToBag(existing[p])
    /\ last' = NoCall
    /\ Reset(p)
    /\ UNCHANGED <<calls, check_vars, limiter_vars>>

\* DatabaseSessionManager.session after the handler raised: rollback.  The
\* history keeps no call that raised.
Rollback(p) ==
    /\ pc[p] = "raised"
    /\ last' = NoCall
    /\ Reset(p)
    /\ UNCHANGED <<store, calls, check_vars, limiter_vars>>

\* A session that keeps a flushed row when its commit fails (each row in a
\* transaction of its own).
CommitFails_row_kept(p) ==
    /\ pc[p] = "returned"
    /\ \E kept \in SUBSET DOMAIN pending[p] :
           /\ kept /= {} \/ pending[p] = EmptyBag
           /\ Cardinality(kept) <= 1
           /\ store' = store (+) SetToBag(kept)
    /\ last' = NoCall
    /\ Reset(p)
    /\ UNCHANGED <<calls, check_vars, limiter_vars>>

\* DatabaseSessionManager.session when the handler returned and the commit
\* does not complete (session.commit() raises and the except branch rolls
\* back, or the process ends before the commit): the session's transaction
\* is rolled back, none of its flushed rows is stored.
CommitFails(p) ==
    /\ pc[p] = "returned"
    /\ store' = store
    /\ last' = NoCall
    /\ Reset(p)
    /\ UNCHANGED <<calls, check_vars, limiter_vars>>

Call(p, max_calls) ==
    \E latitude \in Lats, longitude \in Lons,
       start_date \in Dates, end_date \in Dates \cup {FarDate} :
        Start(p, latitude, longitude, start_date, end_date, max_calls)

\* get_weather_data called while the store answers or fails.
StartOnStore(p, latitude, longitude, start_date, end_date, max_calls, db_up) ==
    /\ Begin(p, max_calls)
    /\ ReadStage(p, latitude, longitude, start_date, end_date, db_up, {})
    /\ UNCHANGED <<request, geocoding>>

CallOnStore(p, max_calls) ==
    \E latitude \in Lats, longitude \in Lons,
       start_date \in Dates, end_date \in Dates \cup {FarDate},
       db_up \in BOOLEAN :
        StartOnStore(p, latitude, longitude, start_date, end_date, max_calls,
                     db_up)

\* get_weather_data called with any two dates, near or far, in either order.
CallAnyRange(p, max_calls) ==
    \E latitude \in Lats, longitude \in Lons,
       start_date \in Dates \cup {FarDate},
       end_date \in Dates \cup {FarDate} :
        Start(p, latitude, longitude, start_date, end_date, max_calls)

----------------------------------------------------------------------------
\* WeatherService.get_weather_data_by_name and the geocoding call.

Locations == {"Springfield"}

\* A GeocodingResult (name, lat, lon; the optional fields left out).
GeocodingResult(name, lat, lon) == [name |-> name, lat |-> lat, lon |-> lon]

\* The candidate lists the geocoding API answers with: none, one, several.
CandidateLists(location_name) ==
    {<<>>,
     <<GeocodingResult(location_name, 40, -74)>>,
     <<GeocodingResult(location_name, 40, -74),
       GeocodingResult(location_name, 41, -74)>>}

GeoHttp(status, json, items) ==
    [net |-> "response", status |-> status, json |-> json, items |-> items]
GeoTransport ==
    [net |-> "error", status |-> 0, json |-> FALSE, items |-> <<>>]

\* The upstream's answers to one geocoding request: a list of candidates, a
\* 200 whose body is no JSON, an error status, a transport failure.
GeoUpstream(location_name) ==
    {GeoHttp(200, TRUE, c) : c \in CandidateLists(location_name)}
    \cup {GeoHttp(200, FALSE, <<>>),
          GeoHttp(500, FALSE, <<>>),
          GeoTransport}

\* WeatherDataFetcher.fetch_coordinates: client.get raising leaves the
\* function as raised (line 129 is outside the try), an error status becomes
\* WeatherDataFetcherError (lines 130-134), response.json() raises on a body
\* that is no JSON (line 136).
fetch_coordinates(g) ==
    IF g.net = "error"
    THEN [kind |-> "TransportError", candidates |-> <<>>]
    ELSE IF g.status \notin 200..299
    THEN [kind |-> "WeatherDataFetcherError", candidates |-> <<>>]
    ELSE IF ~g.json
    THEN [kind |-> "JSONDecodeError", candidates |-> <<>>]
    ELSE [kind |-> "ok", candidates |-> g.items]

NotFoundMessage == "Could not find coordinates for location"
MultipleLocationsMessage ==
    "Multiple locations found. Please specify coordinates manually."

\* Lines 84-92 without the error entry.
NotFoundResponse_silent(location_name) ==
    [weather_data |-> <<>>, errors |-> <<>>, geocoding_results |-> <<>>]

\* Lines 84-92.
NotFoundResponse(location_name) ==
    [weather_data |-> <<>>,
     errors |-> <<[message |-> PyStr(NotFoundMessage),
                   location |-> location_name]>>,
     geocoding_results |-> <<>>]

\* Lines 95-103 with the first candidate alone.
MultipleLocationsResponse_first(candidates) ==
    [weather_data |-> <<>>,
     errors |-> <<[message |-> PyStr(MultipleLocationsMessage)]>>,
     geocoding_results |-> <<candidates[1]>>]

\* Lines 95-103.
MultipleLocationsResponse(candidates) ==
    [weather_data |-> <<>>,
     errors |-> <<[message |-> PyStr(MultipleLocationsMessage)]>>,
     geocoding_results |-> candidates]

\* Line 105 with lat and lon exchanged.
resolved_coordinates_swapped(candidates) ==
    [latitude |-> candidates[1].lon, longitude |-> candidates[1].lat]

\* Line 105: the coordinates get_weather_data is called with.
resolved_coordinates(candidates) ==
    [latitude |-> candidates[1].lat, longitude |-> candidates[1].lon]

\* get_weather_data_by_name without its own validation (line 75): the range
\* is checked by get_weather_data alone, after the geocoding call.
ByNameStage_unchecked(p, location_name, start_date, end_date) ==
    /\ args' = [args EXCEPT ![p] =
                   [latitude |-> NoCoordinate, longitude |-> NoCoordinate,
                    start_date |-> start_date, end_date |-> end_date]]
    /\ pc' = [pc EXCEPT ![p] = "geocoding"]
    /\ UNCHANGED <<store, existing, missing, results, fetched, pending,
                   response, last, geocoding, did, exc>>
    /\ UNCHANGED <<check_vars, limiter_vars>>

\* Lines 72-80: validation, then the call of fetch_coordinates is awaited.
ByNameStage(p, location_name, start_date, end_date) ==
    /\ args' = [args EXCEPT ![p] =
                   [latitude |-> NoCoordinate, longitude |-> NoCoordinate,
                    start_date |-> start_date, end_date |-> end_date]]
    /\ IF validate_date_range(start_date, end_date)
       THEN /\ pc' = [pc EXCEPT ![p] = "raised"]
            /\ exc' = [exc EXCEPT ![p] =
                          [type |-> "WeatherServiceInputError",
                           text |-> DateRangeMessage.text,
                           days |-> DateRangeMessage.days]]
       ELSE /\ pc' = [pc EXCEPT ![p] = "geocoding"]
            /\ UNCHANGED exc
    /\ UNCHANGED <<store, existing, missing, results, fetched, pending,
                   response, last, geocoding, did>>
    /\ UNCHANGED <<check_vars, limiter_vars>>

\* get_weather_data_by_name(location_name, start_date, end_date) called on
\* the service.
StartByName(p, location_name, start_date, end_date, max_calls) ==
    /\ Begin(p, max_calls)
    /\ request' = [request EXCEPT ![p] =
                      [latitude |-> NoCoordinate, longitude |-> NoCoordinate,
                       location |-> location_name]]
    /\ ByNameStage(p, location_name, start_date, end_date)

\* Lines 77-108: fetch_coordinates answers.  WeatherDataFetcherError counts
\* as no candidate; any other exception leaves the call as raised; no
\* candidate and several candidates return at once; one candidate enters
\* get_weather_data with its coordinates.
Geocode(p) ==
    /\ pc[p] = "geocoding"
    /\ \E g \in GeoUpstream(request[p].location) :
          LET r == fetch_coordinates(g)
              candidates == IF r.kind = "WeatherDataFetcherError"
                            THEN <<>> ELSE r.candidates
              coordinates == resolved_coordinates(candidates)
              frame == UNCHANGED <<store, args, existing, missing, results,
                                   fetched, pending, last, check_vars,
                                   limiter_vars>>
          IN /\ geocoding' = [geocoding EXCEPT ![p] =
                    [kind |-> r.kind, candidates |-> candidates]]
             /\ IF r.kind \notin {"ok", "WeatherDataFetcherError"}
                THEN /\ pc' = [pc EXCEPT ![p] = "raised"]
                     /\ exc' = [exc EXCEPT ![p] =
                                   [type |-> r.kind, text |-> "", days |-> 0]]
                     /\ did' = [did EXCEPT ![p] = @ \cup {"geocode"}]
                     /\ UNCHANGED response
                     /\ frame
                ELSE IF candidates = <<>>
                THEN /\ pc' = [pc EXCEPT ![p] = "returned"]
                     /\ response' = [response EXCEPT ![p] =
                                        NotFoundResponse(request[p].location)]
                     /\ did' = [did EXCEPT ![p] = @ \cup {"geocode"}]
                     /\ UNCHANGED exc
                     /\ frame
                ELSE IF Len(candidates) > 1
                THEN /\ pc' = [pc EXCEPT ![p] = "returned"]
                     /\ response' = [response EXCEPT ![p] =
                                        MultipleLocationsResponse(candidates)]
                     /\ did' = [did EXCEPT ![p] = @ \cup {"geocode"}]
                     /\ UNCHANGED exc
                     /\ frame
                ELSE /\ ReadStage(p, coordinates.latitude,
                                  coordinates.longitude, args[p].start_date,
                                  args[p].end_date, TRUE, {"geocode"})
    /\ UNCHANGED <<calls, prior, request>>

CallByName(p, max_calls) ==
    \E location_name \in Locations,
       start_date \in Dates, end_date \in Dates \cup {FarDate} :
        StartByName(p, location_name, start_date, end_date, max_calls)

----------------------------------------------------------------------------
\* The endpoint GET /weather/enriched-day-summary.

ProvideNotBothMessage ==
    "Provide either latitude and longitude OR location, not both"
ProvideEitherMessage == "Provide either latitude and longitude OR location"

\* routes/weather.py lines 115-126: all three parameters or none raise
\* WeatherServiceInputError; else a location calls get_weather_data_by_name
\* and no location calls get_weather_data with the latitude and longitude as
\* given.
get_weather(p, latitude, longitude, location, start_date, end_date, max_calls) ==
    /\ Begin(p, max_calls)
    /\ request' = [request EXCEPT ![p] =
                      [latitude |-> latitude, longitude |-> longitude,
                       location |-> location]]
    /\ IF /\ latitude /= NoCoordinate
          /\ longitude /= NoCoordinate
          /\ location /= NoLocation
       THEN /\ pc' = [pc EXCEPT ![p] = "raised"]
            /\ exc' = [exc EXCEPT ![p] =
                          [type |-> "WeatherServiceInputError",
                           text |-> ProvideNotBothMessage, days |-> 0]]
            /\ UNCHANGED <<store, args, existing, missing, results, fetched,
                           pending, response, last, geocoding, did,
                           check_vars, limiter_vars>>
       ELSE IF /\ latitude = NoCoordinate
               /\ longitude = NoCoordinate
               /\ location = NoLocation
       THEN /\ pc' = [pc EXCEPT ![p] = "raised"]
            /\ exc' = [exc EXCEPT ![p] =
                          [type |-> "WeatherServiceInputError",
                           text |-> ProvideEitherMessage, days |-> 0]]
            /\ UNCHANGED <<store, args, existing, missing, results, fetched,
                           pending, response, last, geocoding, did,
                           check_vars, limiter_vars>>
       ELSE IF location /= NoLocation
       THEN ByNameStage(p, location, start_date, end_date)
       ELSE /\ ReadStage(p, latitude, longitude, start_date, end_date,
                         TRUE, {})
            /\ UNCHANGED geocoding

Request(p, max_calls) ==
    \E latitude \in Lats \cup {NoCoordinate},
       longitude \in Lons \cup {NoCoordinate},
       location \in Locations \cup {NoLocation},
       start_date \in Dates, end_date \in Dates \cup {FarDate} :
        get_weather(p, latitude, longitude, location, start_date, end_date,
                    max_calls)

HTTP_200_OK == 200
HTTP_206_PARTIAL_CONTENT == 206
HTTP_500_INTERNAL_SERVER_ERROR == 500

\* The status of the endpoint's answer once the service call is over: 206
\* when the response has errors (lines 127-128), else 200; 400 from
\* weather_service_error_handler for WeatherServiceInputError; 500 for any
\* other exception, for which the application has no handler.
status_code(p) ==
    IF pc[p] = "returned"
    THEN IF response[p].errors /= <<>>
         THEN HTTP_206_PARTIAL_CONTENT ELSE HTTP_200_OK
    ELSE IF exc[p].type = "WeatherServiceInputError"
    THEN HTTP_400_BAD_REQUEST
    ELSE HTTP_500_INTERNAL_SERVER_ERROR

\* The content of the endpoint's answer.
content(p) ==
    IF pc[p] = "returned"
    THEN response[p]
    ELSE IF exc[p].type = "WeatherServiceInputError"
    THEN [errors |-> <<[message |-> exc[p]]>>]
    ELSE [detail |-> "Internal Server Error"]

----------------------------------------------------------------------------
\* The functions on their own: _validate_date_range on a range, and
\* fetch_weather_data on a list of dates and the upstream's answers.

\* Ranges are drawn from the days 0..MaxDay.
MaxDay == 33

NoRangeCheck == [start_date |-> 0, end_date |-> 0, outcome |-> "none"]
NoFetchCheck ==
    [dates |-> <<>>, answers |-> <<>>, done |-> FALSE, results |-> <<>>,
     out |-> NoFetch]

ValidateRange ==
    /\ range_check.outcome = "pending"
    /\ range_check' =
           [range_check EXCEPT !.outcome =
               IF validate_date_range(range_check.start_date,
                                      range_check.end_date)
               THEN "raised" ELSE "accepted"]
    /\ UNCHANGED <<fetch_check, process_check, enrich_check, gather,
                   pipeline_vars, limiter_vars>>

\* The lists of distinct dates, in any order.
DateLists == UNION {Orders(SetToBag(S)) : S \in SUBSET Dates}

\* fetch_weather_data(40, -74, dates): the units run, the gather collects
\* their outcomes in the order of dates, the loop sorts them.
Gather ==
    /\ ~fetch_check.done
    /\ LET dates == fetch_check.dates
           rs    == [i \in 1..Len(dates) |->
                        fetch_single_day(fetch_check.answers[i])]
       IN fetch_check' =
              [fetch_check EXCEPT !.done = TRUE,
                                  !.results = rs,
                                  !.out = fetch_weather_data(dates, rs)]
    /\ UNCHANGED <<range_check, process_check, enrich_check, gather,
                   pipeline_vars, limiter_vars>>

----------------------------------------------------------------------------
\* WeatherDataProcessor on one raw record.  Temperatures are in hundredths
\* of a kelvin.

\* The temperatures drawn.
MinTemp == 28300
MaxTemp == 30330
Temps == MinTemp..MaxTemp

\* The thresholds 303.15, 293.15 and 283.15 of _add_seasonal_classification.
SummerFrom == 30315
LateSpringFrom == 29315
SpringFrom == 28315

\* _add_seasonal_classification with thresholds that belong to the band
\* below.
add_seasonal_classification_open(temp_afternoon) ==
    IF temp_afternoon > SummerFrom THEN "Summer"
    ELSE IF temp_afternoon > LateSpringFrom /\ temp_afternoon <= SummerFrom
    THEN "Late Spring/Early Fall"
    ELSE IF temp_afternoon > SpringFrom /\ temp_afternoon <= LateSpringFrom
    THEN "Spring/Fall"
    ELSE "Winter"

\* WeatherDataProcessor._add_seasonal_classification: the when/then chain.
add_seasonal_classification(temp_afternoon) ==
    IF temp_afternoon >= SummerFrom THEN "Summer"
    ELSE IF temp_afternoon >= LateSpringFrom /\ temp_afternoon < SummerFrom
    THEN "Late Spring/Early Fall"
    ELSE IF temp_afternoon >= SpringFrom /\ temp_afternoon < LateSpringFrom
    THEN "Spring/Fall"
    ELSE "Winter"

NoProcessCheck == [temp_afternoon |-> 0, done |-> FALSE, season |-> ""]

\* process_data on the record: the derived fields are computed.
Process ==
    /\ ~process_check.done
    /\ process_check.temp_afternoon \in Temps
    /\ process_check' =
           [process_check EXCEPT
               !.done = TRUE,
               !.season = add_seasonal_classification(
                              process_check.temp_afternoon)]
    /\ UNCHANGED <<range_check, fetch_check, enrich_check, gather,
                   pipeline_vars, limiter_vars>>

----------------------------------------------------------------------------
\* WeatherDataProcessor.process_data on a batch of raw records.  Every
\* quantity is in hundredths of its unit (kelvin, millimetre, metre per
\* second).  A record is written with the flattened names of lines 86-119
\* (temperature.min is temp_min, wind.max.speed is wind_speed_max).

\* Thresholds of _add_wind_chill, _add_precipitation_intensity and
\* _add_extreme_weather_detection.
WindChillMaxTemp == 28315
WindChillMinSpeed == 133
LightBelow == 1000
ModerateBelow == 5000
ExtremeMaxFrom == 30815
ExtremeMinBelow == 26315
ExtremePrecipitationOver == 5000
ExtremeWindOver == 2000

\* Inputs are drawn within Margin hundredths of each threshold.
Margin == 2
Near(x) == (x - Margin)..(x + Margin)

\* A null of the wind_chill column, and a value of it: the float that the
\* formula of lines 234-236 gives at (temp_k, wind_speed).
NullFloat == [is_null |-> TRUE, temp_k |-> 0, wind_speed |-> 0]
wind_chill_at(temp_k, wind_speed) ==
    [is_null |-> FALSE, temp_k |-> temp_k, wind_speed |-> wind_speed]

\* _add_wind_chill with the two comparisons turned (strict on the
\* temperature, inclusive on the wind speed).
add_wind_chill_turned(temp_k, wind_speed) ==
    IF temp_k < WindChillMaxTemp /\ wind_speed >= WindChillMinSpeed
    THEN wind_chill_at(temp_k, wind_speed)
    ELSE NullFloat

\* WeatherDataProcessor._add_wind_chill: when(wind_chill_applicable)
\* .then(wind_chill).otherwise(None).
add_wind_chill(temp_k, wind_speed) ==
    IF temp_k <= WindChillMaxTemp /\ wind_speed > WindChillMinSpeed
    THEN wind_chill_at(temp_k, wind_speed)
    ELSE NullFloat

\* _add_precipitation_intensity with thresholds that belong to the category
\* below.
add_precipitation_intensity_closed(precipitation_total) ==
    IF precipitation_total = 0 THEN "None"
    ELSE IF precipitation_total <= LightBelow THEN "Light"
    ELSE IF precipitation_total <= ModerateBelow THEN "Moderate"
    ELSE "Heavy"

\* WeatherDataProcessor._add_precipitation_intensity: the when/then chain.
add_precipitation_intensity(precipitation_total) ==
    IF precipitation_total = 0 THEN "None"
    ELSE IF precipitation_total < LightBelow THEN "Light"
    ELSE IF precipitation_total < ModerateBelow THEN "Moderate"
    ELSE "Heavy"

\* _add_extreme_weather_detection with every comparison strict.
add_extreme_weather_detection_strict(temp_max, temp_min, precipitation_total, wind_speed_max) ==
    [extreme_temperature   |-> \/ temp_max > ExtremeMaxFrom
                               \/ temp_min < ExtremeMinBelow,
     extreme_precipitation |-> precipitation_total > ExtremePrecipitationOver,
     extreme_wind          |-> wind_speed_max > ExtremeWindOver]

\* WeatherDataProcessor._add_extreme_weather_detection: the three flags.
add_extreme_weather_detection(temp_max, temp_min, precipitation_total, wind_speed_max) ==
    [extreme_temperature   |-> \/ temp_max >= ExtremeMaxFrom
                               \/ temp_min < ExtremeMinBelow,
     extreme_precipitation |-> precipitation_total > ExtremePrecipitationOver,
     extreme_wind          |-> wind_speed_max > ExtremeWindOver]

\* WeatherDataProcessor._add_temperature_variability_index: temp_range, and
\* the quotient as its numerator and denominator.
add_temperature_variability_index(temp_max, temp_min) ==
    [temp_range             |-> temp_max - temp_min,
     temp_variability_index |-> <<temp_max - temp_min, temp_max>>]

\* The columns of one row: every expression of lines 86-144 reads columns of
\* the same row only.  humidex and heat_index are floats computed from
\* temp_afternoon and humidity_afternoon of the row; they are written as
\* their arguments.
enriched_row(r) ==
    LET tvi == add_temperature_variability_index(r.temp_max, r.temp_min)
        ewd == add_extreme_weather_detection(r.temp_max, r.temp_min,
                                             r.precipitation_total,
                                             r.wind_speed_max)
    IN [date                    |-> r.date,
        temp_min                |-> r.temp_min,
        temp_max                |-> r.temp_max,
        temp_afternoon          |-> r.temp_afternoon,
        humidity_afternoon      |-> r.humidity_afternoon,
        precipitation_total     |-> r.precipitation_total,
        wind_speed_max          |-> r.wind_speed_max,
        temp_range              |-> tvi.temp_range,
        temp_variability_index  |-> tvi.temp_variability_index,
        season                  |-> add_seasonal_classification(
                                        r.temp_afternoon),
        extreme_temperature     |-> ewd.extreme_temperature,
        extreme_precipitation   |-> ewd.extreme_precipitation,
        extreme_wind            |-> ewd.extreme_wind,
        humidex                 |-> <<r.temp_afternoon, r.humidity_afternoon>>,
        precipitation_intensity |-> add_precipitation_intensity(
                                        r.precipitation_total),
        wind_chill              |-> add_wind_chill(r.temp_afternoon,
                                                   r.wind_speed_max),
        heat_index              |-> <<r.temp_afternoon, r.humidity_afternoon>>]

\* A date string that does not match %Y-%m-%d (the schema's date is any
\* str); every other date is the day's ISO string.
BadDate == -1

\* pl.col("date").str.strptime(pl.Date, format="%Y-%m-%d") is strict: it
\* raises when a string of the column does not parse.
strptime_raises(dates) == BadDate \in dates

\* process_data raises for the batch when the date column does not parse.
process_data_raises(raw_data) ==
    strptime_raises({raw_data[i].date : i \in 1..Len(raw_data)})

\* process_data lines 83-146: the frame of the batch, one row per record in
\* the order of the records, with the columns of every row.
enrichment(raw_data) ==
    [i \in 1..Len(raw_data) |-> enriched_row(raw_data[i])]

\* process_data is run on a batch at most MaxRuns times.
MaxRuns == 2

NoEnrichCheck ==
    [raw_data |-> <<>>, outs |-> <<>>, started |-> FALSE, responses |-> <<>>]

\* One run of process_data on the batch: it raises or returns the frame.
Enrich ==
    /\ enrich_check.started
    /\ Len(enrich_check.outs) < MaxRuns
    /\ LET raw_data == enrich_check.raw_data
           out == IF process_data_raises(raw_data)
                  THEN [raised |-> TRUE, rows |-> <<>>]
                  ELSE [raised |-> FALSE, rows |-> enrichment(raw_data)]
       IN enrich_check' = [enrich_check EXCEPT !.outs = Append(@, out)]
    /\ UNCHANGED <<range_check, fetch_check, process_check, gather,
                   pipeline_vars, limiter_vars>>

\* The fields of the schema WeatherSummaryResponse.
WeatherSummaryResponseFields ==
    {"date", "latitude", "longitude", "timezone", "temp_min", "temp_max",
     "temp_afternoon", "temp_night", "temp_evening", "temp_morning",
     "temp_range", "cloud_cover_afternoon", "humidity_afternoon",
     "precipitation_total", "pressure_afternoon", "wind_speed_max",
     "wind_direction_max", "temp_variability_index", "season",
     "extreme_temperature", "extreme_precipitation", "extreme_wind",
     "humidex", "precipitation_intensity"}

\* WeatherSummaryResponse.model_validate(data) with from_attributes: the
\* attributes of the row that are fields of the schema; any other attribute
\* of the row is left out.
model_validate(row) ==
    [f \in WeatherSummaryResponseFields \cap DOMAIN row |-> row[f]]

\* get_weather_data lines 180-184 on the rows process_data returned first:
\* weather_data is built from the rows (the columns given to
\* WeatherDailySummary(**processed_row) are the attributes of the row).
Respond ==
    /\ enrich_check.outs /= <<>>
    /\ ~enrich_check.outs[1].raised
    /\ enrich_check.responses = <<>>
    /\ enrich_check' =
           [enrich_check EXCEPT
               !.responses =
                   [i \in 1..Len(enrich_check.outs[1].rows) |->
                       model_validate(enrich_check.outs[1].rows[i])]]
    /\ UNCHANGED <<range_check, fetch_check, process_check, gather,
                   pipeline_vars, limiter_vars>>

----------------------------------------------------------------------------
\* The limiter of a WeatherDataFetcher: AsyncLimiter(max_rate), aiolimiter's
\* leaky bucket with time_period = 60 s.  The bucket holds max_rate, every
\* acquisition adds 1 to its level, and the level leaks max_rate / 60 per
\* second.  Time is counted in leak intervals (60 / max_rate seconds, the
\* time in which the level falls by 1), so one minute is max_rate ticks.

\* settings.openweathermap_max_calls_per_minute, scaled down (60 in the
\* configuration).
MaxCallsPerMinute == 2

\* Ticks of the clock in one behaviour.
MaxTime == 3

\* The fetchers alive at once: each request builds a WeatherService with a
\* WeatherDataFetcher of its own (Depends()), and each fetcher builds its
\* own limiter.
Fetchers == {1, 2}

max_rate == MaxCallsPerMinute

\* Ticks in one minute.
Minute == max_rate

\* AsyncLimiter.has_capacity(1), after the leak.
has_capacity(f) == level[f] + 1 <= max_rate

\* "async with self.limiter" in _fetch_single_day (kind "day_summary") and in
\* fetch_coordinates (kind "geocoding"): acquire() returns once the bucket has
\* capacity and adds 1 to the level; the HTTP call follows.
acquire(f, kind) ==
    /\ has_capacity(f)
    /\ level' = [level EXCEPT ![f] = @ + 1]
    /\ admitted' = admitted (+)
                       SetToBag({[fetcher |-> f, kind |-> kind, at |-> now]})
    /\ UNCHANGED now

Acquire(f, kind) ==
    /\ acquire(f, kind)
    /\ UNCHANGED <<pipeline_vars, check_vars>>

\* One leak interval passes: every bucket's level falls by 1, not below 0.
Tick ==
    /\ now < MaxTime
    /\ now' = now + 1
    /\ level' = [f \in Fetchers |-> IF level[f] > 0 THEN level[f] - 1 ELSE 0]
    /\ UNCHANGED <<admitted, pipeline_vars, check_vars>>

----------------------------------------------------------------------------
\* WeatherDataFetcher.fetch_weather_data unit by unit.  Line 49 builds one
\* _fetch_single_day coroutine per date and the gather of line 50 runs them
\* as tasks of the event loop.  A unit first enters "async with self.limiter"
\* (waiting), then makes its HTTP call (in_flight), then delivers its outcome
\* to the gather (done).  The fetcher is fetcher 1.

\* The longest list of dates passed to the call.
MaxUnits == 3

\* The lists of distinct dates of 1..MaxUnits, in any order.
UnitLists == UNION {Orders(SetToBag(S)) : S \in SUBSET (1..MaxUnits)}

\* The upstream's answers to a unit's request.
UnitUpstream(day) ==
    EchoUpstream(40, -74, day) \cup {Http(400, TextBody(ErrorBodyHtml))}

\* The gather's slot of a unit that has not delivered yet.
NotDelivered == Raised("pending", 0, TextBody(""), "")

NoGather ==
    [dates |-> <<>>, unit |-> <<>>, results |-> <<>>, inverted |-> FALSE,
     state |-> "none", out |-> NoFetch]

\* "async with self.limiter" of unit i returns: the unit is admitted.
Admit(i) ==
    /\ gather.state = "gathering"
    /\ i \in DOMAIN gather.unit
    /\ gather.unit[i] = "waiting"
    /\ acquire(1, "day_summary")
    /\ gather' = [gather EXCEPT !.unit[i] = "in_flight"]
    /\ UNCHANGED <<range_check, fetch_check, process_check, enrich_check,
                   pipeline_vars>>

\* A unit whose HTTP call is held while any other unit waits on the limiter.
Complete_held(i) ==
    /\ gather.state = "gathering"
    /\ i \in DOMAIN gather.unit
    /\ gather.unit[i] = "in_flight"
    /\ \A j \in DOMAIN gather.unit : gather.unit[j] /= "waiting"
    /\ \E u \in UnitUpstream(gather.dates[i]) :
           gather' = [gather EXCEPT
                         !.unit[i] = "done",
                         !.results[i] = fetch_single_day(u),
                         !.inverted = @ \/ \E j \in 1..(i - 1) :
                                               gather.unit[j] /= "done"]
    /\ UNCHANGED <<range_check, fetch_check, process_check, enrich_check,
                   pipeline_vars, limiter_vars>>

\* Lines 101-105 of unit i: the HTTP call ends and the unit delivers its
\* outcome to its slot of the gather.  inverted records that a unit
\* delivered before a unit of an earlier date of the list.
Complete(i) ==
    /\ gather.state = "gathering"
    /\ i \in DOMAIN gather.unit
    /\ gather.unit[i] = "in_flight"
    /\ \E u \in UnitUpstream(gather.dates[i]) :
           gather' = [gather EXCEPT
                         !.unit[i] = "done",
                         !.results[i] = fetch_single_day(u),
                         !.inverted = @ \/ \E j \in 1..(i - 1) :
                                               gather.unit[j] /= "done"]
    /\ UNCHANGED <<range_check, fetch_check, process_check, enrich_check,
                   pipeline_vars, limiter_vars>>

\* Lines 50-74: every unit has delivered, the gather returns and the loop
\* sorts the outcomes; the call returns, or raises while building a message.
Return ==
    /\ gather.state = "gathering"
    /\ \A i \in DOMAIN gather.unit : gather.unit[i] = "done"
    /\ LET out == fetch_weather_data(gather.dates, gather.results)
       IN gather' = [gather EXCEPT
                        !.out = out,
                        !.state = IF out.raised THEN "raised" ELSE "returned"]
    /\ UNCHANGED <<range_check, fetch_check, process_check, enrich_check,
                   pipeline_vars, limiter_vars>>

\* Time passes while a unit waits on a full bucket.
Wait ==
    /\ gather.state = "gathering"
    /\ \E i \in DOMAIN gather.unit : gather.unit[i] = "waiting"
    /\ ~has_capacity(1)
    /\ Tick

----------------------------------------------------------------------------
\* Specifications.

ChecksIdle ==
    /\ range_check = NoRangeCheck
    /\ fetch_check = NoFetchCheck
    /\ process_check = NoProcessCheck
    /\ enrich_check = NoEnrichCheck
    /\ gather = NoGather
LimiterIdle ==
    /\ now = 0
    /\ level = [f \in Fetchers |-> 0]
    /\ admitted = EmptyBag

Init == PipelineInit /\ ChecksIdle /\ LimiterIdle

\* Concurrent requests against any upstream.
Next ==
    \E p \in Procs :
          \/ Call(p, MaxCalls)
          \/ Fetch(p, "any")
          \/ Save(p)
          \/ Commit(p, FALSE)
          \/ Rollback(p)

Spec == Init /\ [][Next]_vars

\* Concurrent requests against an upstream that keeps to its API.
NextEcho ==
    \E p \in Procs :
          \/ Call(p, MaxCalls)
          \/ Fetch(p, "echo")
          \/ Save(p)
          \/ Commit(p, FALSE)
          \/ Rollback(p)

SpecEcho == Init /\ [][NextEcho]_vars

\* Calls made one after the other (a single slot) against any upstream, with
\* the history of the previous call kept.
NextSeq ==
    \/ Call(1, MaxSeqCalls)
    \/ Fetch(1, "any")
    \/ Save(1)
    \/ Commit(1, TRUE)
    \/ Rollback(1)

SpecSeq == Init /\ [][NextSeq]_vars

\* Calls made one after the other against an upstream that keeps to its API.
NextSeqEcho ==
    \/ Call(1, MaxSeqCalls)
    \/ Fetch(1, "echo")
    \/ Save(1)
    \/ Commit(1, TRUE)
    \/ Rollback(1)

SpecSeqEcho == Init /\ [][NextSeqEcho]_vars

\* _validate_date_range on every range of 0..MaxDay.
RangeInit ==
    /\ PipelineInit /\ LimiterIdle
    /\ fetch_check = NoFetchCheck
    /\ process_check = NoProcessCheck
    /\ enrich_check = NoEnrichCheck
    /\ gather = NoGather
    /\ range_check \in
           {[start_date |-> s, end_date |-> e, outcome |-> "pending"] :
                s \in 0..MaxDay, e \in 0..MaxDay}

NextRange == ValidateRange

SpecRange == RangeInit /\ [][NextRange]_vars

\* fetch_weather_data on every list of distinct dates and every answer of the
\* upstream to each.
FetchInit ==
    /\ PipelineInit /\ LimiterIdle
    /\ range_check = NoRangeCheck
    /\ process_check = NoProcessCheck
    /\ enrich_check = NoEnrichCheck
    /\ gather = NoGather
    /\ fetch_check \in
           UNION {{[dates |-> ds, answers |-> us, done |-> FALSE,
                    results |-> <<>>, out |-> NoFetch] :
                      us \in {a \in [1..Len(ds) ->
                                        UNION {AllUpstream(40, -74, d) :
                                                   d \in Dates}] :
                                 \A i \in 1..Len(ds) :
                                     a[i] \in AllUpstream(40, -74, ds[i])}} :
                  ds \in DateLists}

NextFetch == Gather

SpecFetch == FetchInit /\ [][NextFetch]_vars

\* process_data on a record of every afternoon temperature.
ProcessInit ==
    /\ PipelineInit /\ LimiterIdle
    /\ range_check = NoRangeCheck
    /\ fetch_check = NoFetchCheck
    /\ enrich_check = NoEnrichCheck
    /\ gather = NoGather
    /\ process_check \in
           {[temp_afternoon |-> t, done |-> FALSE, season |-> ""] :
                t \in Temps}

NextProcess == Process

SpecProcess == ProcessInit /\ [][NextProcess]_vars

\* fetch_weather_data on every list of dates, its units all waiting on the
\* limiter of a new fetcher.
UnitsInit ==
    /\ PipelineInit /\ LimiterIdle
    /\ range_check = NoRangeCheck
    /\ fetch_check = NoFetchCheck
    /\ process_check = NoProcessCheck
    /\ enrich_check = NoEnrichCheck
    /\ gather \in
           {[dates |-> ds,
             unit |-> [i \in 1..Len(ds) |-> "waiting"],
             results |-> [i \in 1..Len(ds) |-> NotDelivered],
             inverted |-> FALSE, state |-> "gathering", out |-> NoFetch] :
                ds \in UnitLists}

NextUnits ==
    \/ \E i \in 1..MaxUnits : Admit(i)
    \/ \E i \in 1..MaxUnits : Complete(i)
    \/ Return
    \/ Wait

SpecUnits == UnitsInit /\ [][NextUnits]_vars

\* The scheduling of the gather: the event loop runs every task that can
\* run (a unit whose acquire() can return is resumed, a gather whose units
\* are all done returns), the clock advances, and every HTTP call ends.
UnitsFairness ==
    /\ \A i \in 1..MaxUnits : WF_vars(Admit(i)) /\ WF_vars(Complete(i))
    /\ WF_vars(Return)
    /\ WF_vars(Wait)

SpecUnitsFair == SpecUnits /\ UnitsFairness

\* The record of the processor's test: min 293.15, max 308.15, afternoon
\* 306.15, humidity 70, precipitation 55, wind 22.
ExampleRecord ==
    [date |-> 0, temp_min |-> 29315, temp_max |-> 30815,
     temp_afternoon |-> 30615, humidity_afternoon |-> 7000,
     precipitation_total |-> 5500, wind_speed_max |-> 2200]

\* Records whose fields lie around the thresholds of the derived columns.
ThresholdRecords ==
    {[date |-> 0, temp_min |-> tmin, temp_max |-> tmax,
      temp_afternoon |-> t, humidity_afternoon |-> 7000,
      precipitation_total |-> pt, wind_speed_max |-> w] :
        tmin \in Near(ExtremeMinBelow),
        tmax \in Near(ExtremeMaxFrom),
        t    \in Near(WindChillMaxTemp),
        pt   \in (0..Margin) \cup Near(LightBelow) \cup Near(ModerateBelow),
        w    \in Near(WindChillMinSpeed) \cup Near(ExtremeWindOver)}

\* process_data on a batch of one record.
EnrichInit ==
    /\ PipelineInit /\ LimiterIdle
    /\ range_check = NoRangeCheck
    /\ fetch_check = NoFetchCheck
    /\ process_check = NoProcessCheck
    /\ gather = NoGather
    /\ enrich_check \in
           {[raw_data |-> <<r>>, outs |-> <<>>, started |-> TRUE,
             responses |-> <<>>] :
                r \in ThresholdRecords \cup {ExampleRecord}}

NextEnrich == Enrich

SpecEnrich == EnrichInit /\ [][NextEnrich]_vars

\* process_data on a batch of one record, and the response row built from
\* its row.
NextRespond ==
    \/ Enrich
    \/ Respond

SpecRespond == EnrichInit /\ [][NextRespond]_vars

\* Batches of at most MaxBatch records.
MaxBatch == 3

\* A cold and windy day after the example's, and a record whose date does
\* not parse.
ColdRecord ==
    [date |-> 1, temp_min |-> 26000, temp_max |-> 28000,
     temp_afternoon |-> 27500, humidity_afternoon |-> 4000,
     precipitation_total |-> 0, wind_speed_max |-> 500]
BadDateRecord == [ColdRecord EXCEPT !.date = BadDate]
BatchRecords == {ExampleRecord, ColdRecord, BadDateRecord}

\* process_data on every batch of these records, in every order.
BatchInit ==
    /\ PipelineInit /\ LimiterIdle
    /\ range_check = NoRangeCheck
    /\ fetch_check = NoFetchCheck
    /\ process_check = NoProcessCheck
    /\ gather = NoGather
    /\ enrich_check \in
           {[raw_data |-> b, outs |-> <<>>, started |-> TRUE,
             responses |-> <<>>] :
                b \in UNION {[1..n -> BatchRecords] : n \in 1..MaxBatch}}

NextBatch == Enrich

SpecBatch == BatchInit /\ [][NextBatch]_vars

\* The limiters of the fetchers alive at once, under any arrival of calls.
NextLimiter ==
    \/ \E f \in Fetchers : Acquire(f, "day_summary")
    \/ \E f \in Fetchers : Acquire(f, "geocoding")
    \/ Tick

SpecLimiter == Init /\ [][NextLimiter]_vars

\* Calls by coordinates and by name made one after the other against any
\* upstream.
NextSeqName ==
    \/ Call(1, MaxSeqCalls)
    \/ CallByName(1, MaxSeqCalls)
    \/ Geocode(1)
    \/ Fetch(1, "any")
    \/ Save(1)
    \/ Commit(1, FALSE)
    \/ Rollback(1)

SpecSeqName == Init /\ [][NextSeqName]_vars

\* Calls made one after the other against a store that can fail.
NextStore ==
    \/ CallOnStore(1, MaxSeqCalls)
    \/ Fetch(1, "any")
    \/ Save(1)
    \/ SaveFails(1)
    \/ Commit(1, FALSE)
    \/ Rollback(1)

SpecStore == Init /\ [][NextStore]_vars

\* Requests to the endpoint, served one after the other.
NextRoute ==
    \/ Request(1, MaxSeqCalls)
    \/ Geocode(1)
    \/ Fetch(1, "any")
    \/ Save(1)
    \/ Commit(1, FALSE)
    \/ Rollback(1)

SpecRoute == Init /\ [][NextRoute]_vars

\* Calls for any two dates made one after the other against any upstream.
NextSeqRanges ==
    \/ CallAnyRange(1, MaxSeqCalls)
    \/ Fetch(1, "any")
    \/ Save(1)
    \/ Commit(1, FALSE)
    \/ Rollback(1)

SpecSeqRanges == Init /\ [][NextSeqRanges]_vars

\* The rows of the requested place a store can hold: any of its dates.
SeededStores ==
    {SetToBag({[latitude |-> 40, longitude |-> -74, date |-> d] : d \in S}) :
         S \in SUBSET Dates}

\* A call by name in slot 1 next to a call by coordinates in slot 2, against
\* any store and any upstream; two calls are made in all.
TwinCalls == Cardinality(Procs)

TwinInit ==
    /\ store \in SeededStores
    /\ SlotsIdle
    /\ ChecksIdle /\ LimiterIdle

NextTwin ==
    \/ CallByName(1, TwinCalls)
    \/ Call(2, TwinCalls)
    \/ Geocode(1)
    \/ \E p \in Procs : Fetch(p, "any")
    \/ \E p \in Procs : Save(p)
    \/ \E p \in Procs : Commit(p, FALSE)
    \/ \E p \in Procs : Rollback(p)

SpecTwin == TwinInit /\ [][NextTwin]_vars

\* Two concurrent calls by coordinates, one per slot, against any store;
\* slot 1 is answered by any upstream, slot 2 by one that keeps to its API.
NextPair ==
    \/ \E p \in Procs : Call(p, TwinCalls)
    \/ Fetch(1, "any")
    \/ Fetch(2, "echo")
    \/ \E p \in Procs : Save(p)
    \/ \E p \in Procs : Commit(p, FALSE)
    \/ \E p \in Procs : Rollback(p)

SpecPair == TwinInit /\ [][NextPair]_vars

\* The same two calls where the bulk insert and the session's commit can
\* fail.
NextCommit ==
    \/ \E p \in Procs : Call(p, TwinCalls)
    \/ Fetch(1, "any")
    \/ Fetch(2, "echo")
    \/ \E p \in Procs : Save(p)
    \/ \E p \in Procs : SaveFails(p)
    \/ \E p \in Procs : Commit(p, FALSE)
    \/ \E p \in Procs : CommitFails(p)
    \/ \E p \in Procs : Rollback(p)

SpecCommit == TwinInit /\ [][NextCommit]_vars

----------------------------------------------------------------------------
\* Properties.

\* The dates of a sequence of rows strictly ascend.
StrictlyAscending(rows) ==
    \A i \in 1..(Len(rows) - 1) : rows[i].date < rows[i + 1].date

\* C1: the rows get_weather_data returns are in strictly ascending date order,
\* so no date appears twice, whatever calls came before.
C1_StrictlyAscendingDates ==
    \A p \in Procs :
        pc[p] = "returned" => StrictlyAscending(response[p].weather_data)

\* C2: the store never holds more than one row for a (latitude, longitude,
\* date), also when invocations for overlapping ranges interleave.
C2_OneRowPerKey ==
    \A row \in BagToSet(store) : CopiesIn(row, store) = 1

\* A second call with the arguments of the call that returned just before it
\* has computed its missing dates.
SecondCall(p) ==
    /\ pc[p] \in {"fetching", "fetched", "returned"}
    /\ prior[p] /= NoCall
    /\ prior[p].args = args[p]

\* The dates for which a bag of rows holds a row of the requested place.
StoredDates(rows, latitude, longitude) ==
    {row.date : row \in {r \in BagToSet(rows) :
                            r.latitude = latitude /\ r.longitude = longitude}}

FailedDays(p) == {i \in 1..Len(missing[p]) : results[p][i].kind /= "ok"}

\* The call got past validation and its fetch is over.
FetchOver(p) ==
    \/ pc[p] \in {"fetched", "returned"}
    \/ pc[p] = "raised" /\ exc[p].type /= "WeatherServiceInputError"

\* C4: when some days of a range fail upstream, the response has a row for
\* every date that was stored or fetched, exactly one error entry carrying
\* the date for every date that failed, and a failure removes no other row.
C4_PartialFailureKeepsRows ==
    \A p \in Procs :
        FetchOver(p) =>
            /\ pc[p] /= "raised"
            /\ pc[p] = "returned" =>
                  /\ \A d \in args[p].start_date..args[p].end_date :
                         d \notin Range(missing[p]) =>
                             \E i \in 1..Len(response[p].weather_data) :
                                 response[p].weather_data[i].date = d
                  /\ \A i \in 1..Len(missing[p]) :
                         results[p][i].kind = "ok" =>
                             \E j \in 1..Len(response[p].weather_data) :
                                 response[p].weather_data[j] =
                                     WeatherSummaryResponse(
                                         process_data(<<results[p][i].body>>)[1])
                  /\ \A i \in FailedDays(p) :
                         Cardinality({j \in 1..Len(response[p].errors) :
                             response[p].errors[j].date = missing[p][i]}) = 1
                  /\ Len(response[p].errors) = Cardinality(FailedDays(p))

\* C5: a range beyond the maximum raises nothing; the call returns a response
\* with no rows and one error entry that names the maximum.
C5_TooLargeRangeReturnsError ==
    \A p \in Procs :
        (/\ pc[p] \in {"returned", "raised"}
         /\ validate_date_range(args[p].start_date, args[p].end_date)) =>
            /\ pc[p] = "returned"
            /\ response[p].weather_data = <<>>
            /\ Len(response[p].errors) = 1
            /\ response[p].errors[1].message = DateRangeMessage

\* C6: a range is accepted exactly when its inclusive count of days is at
\* most weather_service_max_date_range: 31 days pass, 32 are rejected.
C6_AcceptedIffAtMostMaxDays ==
    range_check.outcome \in {"accepted", "raised"} =>
        (range_check.outcome = "accepted" <=>
            range_check.end_date - range_check.start_date + 1
                <= weather_service_max_date_range)

\* The calls a set of fetchers' limiters admitted in the minute from tick t.
AdmittedInMinute(fs, t) ==
    BagCardinality(BagFilter(admitted,
        {a \in DOMAIN admitted :
            a.fetcher \in fs /\ a.at >= t /\ a.at < t + Minute}))

\* C7: one fetcher's limiter admits at most max_calls_per_minute calls,
\* day-summary and geocoding together, in any window of one minute.
C7_AtMostMaxCallsPerMinute ==
    \A f \in Fetchers : \A t \in 0..now :
        AdmittedInMinute({f}, t) <= max_rate

\* C8: the budget is one for the process: the calls of all invocations that
\* run at once, taken together, stay within max_calls_per_minute a minute.
C8_OneBudgetForAllInvocations ==
    \A t \in 0..now : AdmittedInMinute(Fetchers, t) <= max_rate

\* C9: a day answered with HTTP 400 yields exactly one error entry, with the
\* day's date and the response's decoded body as its message, and no row.
C9_BadRequestYieldsBodyEntry ==
    fetch_check.done =>
        \A i \in 1..Len(fetch_check.dates) :
            LET r == fetch_check.results[i]
                out == fetch_check.out
            IN (r.kind = "HTTPStatusError" /\ r.status = HTTP_400_BAD_REQUEST) =>
                   /\ ~out.raised
                   /\ \E j \in 1..Len(out.api_errors) :
                          /\ out.api_errors[j] =
                                 [date |-> fetch_check.dates[i],
                                  message |-> PyDict(r.body.text)]
                          /\ \A k \in 1..Len(out.api_errors) :
                                 out.api_errors[k].date = fetch_check.dates[i]
                                     => k = j
                   /\ \A j \in 1..Len(out.api_results) :
                          out.api_results[j] /= r.body

\* C10: in a fetch that returns, a day that failed in any way other than
\* HTTP 400 (another status, a timeout, a transport failure, a body that does
\* not parse) has an error entry whose message is the generic text.
C10_OtherFailuresYieldGenericText ==
    (fetch_check.done /\ ~fetch_check.out.raised) =>
        \A i \in 1..Len(fetch_check.dates) :
            LET r == fetch_check.results[i]
            IN (/\ r.kind /= "ok"
                /\ ~(r.kind = "HTTPStatusError"
                     /\ r.status = HTTP_400_BAD_REQUEST)) =>
                   \E j \in 1..Len(fetch_check.out.api_errors) :
                       fetch_check.out.api_errors[j] =
                           [date |-> fetch_check.dates[i],
                            message |-> PyStr(GenericFetchError)]

\* The call in slot p is a call by name.
ByName(p) == request[p].location /= NoLocation

\* The call in slot p has had none of the effects of a weather lookup.
NoWeatherLookup(p) ==
    /\ did[p] \cap {"read", "fetch", "write"} = {}
    /\ pending[p] = EmptyBag

\* C11: when geocoding returns more than one candidate,
\* get_weather_data_by_name returns no rows, exactly one "multiple locations
\* found" error and all the candidates, and neither reads the store, nor
\* fetches a day, nor writes to the store.
C11_AmbiguousLocationReturnsCandidates ==
    \A p \in Procs :
        (/\ ByName(p)
         /\ geocoding[p].kind = "ok"
         /\ Len(geocoding[p].candidates) > 1) =>
            /\ pc[p] = "returned"
            /\ response[p].weather_data = <<>>
            /\ response[p].errors =
                   <<[message |-> PyStr(MultipleLocationsMessage)]>>
            /\ response[p].geocoding_results = geocoding[p].candidates
            /\ NoWeatherLookup(p)

\* C11's case: a call by name whose geocoding gave two candidates returned.
C11_AmbiguousLocationReturned ==
    \E p \in Procs :
        /\ ByName(p)
        /\ pc[p] = "returned"
        /\ geocoding[p].kind = "ok"
        /\ Len(geocoding[p].candidates) = 2
        /\ store /= EmptyBag

\* C12: when geocoding returns no candidate, get_weather_data_by_name
\* returns no rows, no geocoding results and exactly one error saying that
\* the location's coordinates could not be found, and neither reads the
\* store, nor fetches a day, nor writes to the store.
C12_UnknownLocationReturnsNotFound ==
    \A p \in Procs :
        (/\ ByName(p)
         /\ geocoding[p].kind = "ok"
         /\ geocoding[p].candidates = <<>>) =>
            /\ pc[p] = "returned"
            /\ response[p].weather_data = <<>>
            /\ response[p].geocoding_results = <<>>
            /\ response[p].errors =
                   <<[message |-> PyStr(NotFoundMessage),
                      location |-> request[p].location]>>
            /\ NoWeatherLookup(p)

\* C12's case: a call by name whose geocoding gave no candidate returned.
C12_UnknownLocationReturned ==
    \E p \in Procs :
        /\ ByName(p)
        /\ pc[p] = "returned"
        /\ geocoding[p].kind = "ok"
        /\ geocoding[p].candidates = <<>>
        /\ store /= EmptyBag

\* The rows the call in slot p read from the store (existing_summaries
\* before the saved rows were appended).
RowsRead(p) ==
    IF pc[p] = "returned" /\ fetched[p].api_results /= <<>>
    THEN SeqToBag(existing[p]) (-)
             SeqToBag([i \in 1..Len(fetched[p].api_results) |->
                          WeatherDailySummary(
                              process_data(fetched[p].api_results)[i])])
    ELSE SeqToBag(existing[p])

\* The call by name in slot p got the single candidate c, the call in slot q
\* is get_weather_data(c.lat, c.lon, start, end) for the same dates, both
\* read the same rows and got the same answers from the upstream, and both
\* are over.
Twins(p, q) ==
    /\ ByName(p) /\ ~ByName(q)
    /\ geocoding[p].kind = "ok"
    /\ Len(geocoding[p].candidates) = 1
    /\ pc[p] \in {"returned", "raised"}
    /\ pc[q] \in {"returned", "raised"}
    /\ args[q] = [latitude |-> geocoding[p].candidates[1].lat,
                  longitude |-> geocoding[p].candidates[1].lon,
                  start_date |-> args[p].start_date,
                  end_date |-> args[p].end_date]
    /\ RowsRead(p) = RowsRead(q)
    /\ results[p] = results[q]

\* C13: with exactly one candidate, get_weather_data_by_name answers as
\* get_weather_data(candidate.lat, candidate.lon, start, end) does in the
\* same store state (same rows, same errors, same exception), and its
\* geocoding_results are exactly that candidate.
C13_OneCandidateAnswersAsCoordinates ==
    \A p \in Procs : \A q \in Procs :
        Twins(p, q) =>
            /\ args[p] = args[q]
            /\ pc[p] = pc[q]
            /\ exc[p] = exc[q]
            /\ response[p].weather_data = response[q].weather_data
            /\ response[p].errors = response[q].errors
            /\ pc[p] = "returned" =>
                   /\ response[p].geocoding_results = geocoding[p].candidates
                   /\ response[q].geocoding_results = <<>>

\* C13's case: the two calls returned side by side with a row read from the
\* store and an error entry for a day that failed.
C13_TwinsReturned ==
    /\ Twins(1, 2)
    /\ pc[1] = "returned"
    /\ RowsRead(1) /= EmptyBag
    /\ response[1].weather_data /= <<>>
    /\ response[1].errors /= <<>>

\* C14: a geocoding call that fails (error status, timeout, transport error)
\* counts as an empty candidate list: get_weather_data_by_name returns the
\* not-found response and raises nothing.
C14_GeocodingFailureIsNotFound ==
    \A p \in Procs :
        (ByName(p) /\ geocoding[p].kind \notin {"", "ok"}) =>
            /\ pc[p] = "returned"
            /\ response[p] = NotFoundResponse(request[p].location)

\* C15: when the store read or the bulk insert fails, get_weather_data
\* raises that storage error as it is: no response and no error entry is
\* built, nothing of the call is flushed, and after a failed read no day is
\* fetched upstream.
C15_StorageErrorPropagates ==
    \A p \in Procs :
        /\ ("read failed" \in did[p] \/ "write failed" \in did[p]) =>
               /\ pc[p] = "raised"
               /\ exc[p] = StorageError
               /\ response[p] = NoResponse
               /\ pending[p] = EmptyBag
        /\ "read failed" \in did[p] =>
               /\ "fetch" \notin did[p]
               /\ results[p] = <<>>

\* C15's case: a bulk insert failed after a day was fetched, with rows of an
\* earlier call in the store.
C15_InsertFailed ==
    \E p \in Procs :
        /\ "write failed" \in did[p]
        /\ "fetch" \in did[p]
        /\ store /= EmptyBag

\* The request names its place in exactly one way: latitude and longitude
\* without a location, or a location without latitude and longitude.
WellSpecified(r) ==
    \/ /\ r.latitude /= NoCoordinate
       /\ r.longitude /= NoCoordinate
       /\ r.location = NoLocation
    \/ /\ r.latitude = NoCoordinate
       /\ r.longitude = NoCoordinate
       /\ r.location /= NoLocation

\* C16: a request that does not name its place in exactly one way is
\* rejected: it is answered 400 with exactly one error entry and no results,
\* and no weather or geocoding lookup is made for it.
C16_IllSpecifiedRequestRejected ==
    \A p \in Procs :
        (pc[p] /= "idle" /\ ~WellSpecified(request[p])) =>
            /\ pc[p] = "raised"
            /\ status_code(p) = HTTP_400_BAD_REQUEST
            /\ Len(content(p).errors) = 1
            /\ did[p] = {}

\* C17: the endpoint answers 200 exactly when the service response has no
\* errors, 206 when it has errors, 400 with an errors list for an input
\* validation error, and a day whose fetch fails never fails the request.
C17_StatusDistinguishesOutcomes ==
    \A p \in Procs :
        pc[p] \in {"returned", "raised"} =>
            /\ status_code(p) = HTTP_200_OK <=>
                   (pc[p] = "returned" /\ response[p].errors = <<>>)
            /\ (pc[p] = "returned" /\ response[p].errors /= <<>>) =>
                   status_code(p) = HTTP_206_PARTIAL_CONTENT
            /\ (pc[p] = "raised" /\ exc[p].type = "WeatherServiceInputError") =>
                   /\ status_code(p) = HTTP_400_BAD_REQUEST
                   /\ Len(content(p).errors) = 1
            /\ FailedDays(p) /= {} =>
                   status_code(p) = HTTP_206_PARTIAL_CONTENT

\* C18: after a call in which some days failed, the failed days are not
\* stored, and the same call made again requests upstream exactly the days
\* that failed and none of the others.
C18_RetryRequestsFailedDays ==
    \A p \in Procs :
        (SecondCall(p) /\ prior[p].failed /= {}) =>
            /\ prior[p].failed \cap
                   StoredDates(store, args[p].latitude, args[p].longitude) = {}
            /\ Range(missing[p]) = prior[p].failed

\* C19: for start_date > end_date, however far apart, get_weather_data
\* takes the range as empty: it raises nothing, requests no day upstream,
\* writes nothing and returns no rows and no errors.
C19_OpposedRangeIsEmpty ==
    \A p \in Procs :
        (/\ pc[p] /= "idle"
         /\ ~ByName(p)
         /\ args[p].start_date > args[p].end_date) =>
            /\ pc[p] /= "raised"
            /\ existing[p] = <<>>
            /\ missing[p] = <<>>
            /\ did[p] \subseteq {"read"}
            /\ pending[p] = EmptyBag
            /\ pc[p] = "returned" =>
                   /\ response[p].weather_data = <<>>
                   /\ response[p].errors = <<>>

\* C19's case: a call from FarDate back to day 1 returned, with rows of an
\* earlier call in the store.
C19_FarOpposedRangeReturned ==
    \E p \in Procs :
        /\ pc[p] = "returned"
        /\ args[p].start_date = FarDate
        /\ args[p].end_date = 1
        /\ store /= EmptyBag

EnrichedRows ==
    UNION {Range(enrich_check.outs[k].rows) :
               k \in 1..Len(enrich_check.outs)}

\* C21: wind_chill is null whenever the afternoon temperature is above
\* 283.15 K, whatever the wind speed, and whenever the wind speed is at most
\* 1.33 m/s, whatever the temperature; it is non-null exactly when the
\* temperature is at most 283.15 K and the wind speed is above 1.33 m/s.
C21_WindChillNullOutsideItsDomain ==
    \A row \in EnrichedRows :
        /\ row.temp_afternoon > 28315 => row.wind_chill.is_null
        /\ row.wind_speed_max <= 133 => row.wind_chill.is_null
        /\ ~row.wind_chill.is_null <=>
               (row.temp_afternoon <= 28315 /\ row.wind_speed_max > 133)

\* C21's case: a row of exactly 283.15 K with a wind just above 1.33 m/s has
\* a wind chill, and a row of exactly 1.33 m/s has none.
C21_WindChillAtBoundary ==
    /\ \E row \in EnrichedRows :
           /\ row.temp_afternoon = 28315
           /\ row.wind_speed_max = 134
           /\ ~row.wind_chill.is_null
    /\ Len(enrich_check.outs) = MaxRuns

C23_ExtremityFlagsByThreshold ==
    \A row \in EnrichedRows :
        /\ row.extreme_temperature <=>
               (row.temp_max >= 30815 \/ row.temp_min < 26315)
        /\ row.extreme_precipitation <=> row.precipitation_total > 5000
        /\ row.extreme_wind <=> row.wind_speed_max > 2000
        /\ (/\ row.temp_max = 30815
            /\ row.precipitation_total = 5500
            /\ row.wind_speed_max = 2200) =>
               /\ row.extreme_temperature
               /\ row.extreme_precipitation
               /\ row.extreme_wind

\* C23's case: the record with max 308.15, min 293.15, precipitation 55 and
\* wind 22 has been processed and carries the three flags.
C23_ExampleAllExtreme ==
    \E row \in EnrichedRows :
        /\ row.temp_max = 30815 /\ row.temp_min = 29315
        /\ row.precipitation_total = 5500 /\ row.wind_speed_max = 2200
        /\ row.extreme_temperature
        /\ row.extreme_precipitation
        /\ row.extreme_wind

\* C24: process_data is a pure per-row map: for a batch of n raw records it
\* returns n rows in the order of the records, row i carries record i's raw
\* fields unchanged and its derived fields are those of record i alone,
\* whatever the other records are, and every run on the same batch returns
\* the same frame.
C24_PureRowMap ==
    \A k \in 1..Len(enrich_check.outs) :
        LET raw_data == enrich_check.raw_data
            out      == enrich_check.outs[k]
        IN /\ ~out.raised
           /\ Len(out.rows) = Len(raw_data)
           /\ \A i \in 1..Len(raw_data) :
                  /\ out.rows[i] = enriched_row(raw_data[i])
                  /\ out.rows[i].date = raw_data[i].date
                  /\ out.rows[i].temp_afternoon = raw_data[i].temp_afternoon
           /\ out = enrich_check.outs[1]

\* The dates of [start_date, end_date] with no committed row for (latitude,
\* longitude).
Unstored(latitude, longitude, start_date, end_date) ==
    {d \in start_date..end_date :
        ~\E r \in DOMAIN store :
            r.latitude = latitude /\ r.longitude = longitude /\ r.date = d}

\* C25: get_weather_data calls fetch_weather_data with exactly the dates of
\* [start, end] that have no stored row for (lat, lon) when the store is
\* read, each once and in ascending order; no date stored at that time is
\* requested, one request is made per date of the list, and none when every
\* date is stored.
C25_FetchesExactlyUnstoredDates ==
    [][\A p \in Procs :
          /\ (pc[p] = "idle" /\ pc'[p] = "fetching") =>
                 LET a    == args'[p]
                     want == Unstored(a.latitude, a.longitude, a.start_date,
                                      a.end_date)
                     ds   == missing'[p]
                 IN /\ Range(ds) = want
                    /\ Len(ds) = Cardinality(want)
                    /\ \A i, j \in 1..Len(ds) : i < j => ds[i] < ds[j]
          /\ (pc[p] = "fetching" /\ pc'[p] /= "fetching") =>
                 Len(results'[p]) = Len(missing[p])]_vars

\* C25's case: a call over two dates found one of them stored and has
\* requested the other alone.
C25_OnlyUnstoredRequested ==
    \E p \in Procs :
        /\ pc[p] = "fetched"
        /\ args[p].start_date < args[p].end_date
        /\ Len(missing[p]) = 1
        /\ Len(results[p]) = 1
        /\ Len(existing[p]) >= 1

\* C26: fetch_weather_data does not fail fast: it returns after every
\* requested day's unit has completed, and every requested date contributes
\* exactly one outcome, a result row or an error entry, never both and never
\* neither, so that len(results) + len(errors) = len(dates); one day's
\* failure cancels or skips no other day.
C26_EveryDateOneOutcome ==
    fetch_check.done =>
        LET dates == fetch_check.dates
            rs    == fetch_check.results
            out   == fetch_check.out
            Entries(d) == {j \in 1..Len(out.api_errors) :
                               out.api_errors[j].date = d}
        IN /\ ~out.raised
           /\ Len(rs) = Len(dates)
           /\ Len(out.api_results) + Len(out.api_errors) = Len(dates)
           /\ \A i \in 1..Len(dates) :
                  IF rs[i].kind = "ok"
                  THEN /\ \E j \in 1..Len(out.api_results) :
                              out.api_results[j] = rs[i].body
                       /\ Entries(dates[i]) = {}
                  ELSE Cardinality(Entries(dates[i])) = 1

\* C26 on the fetches whose HTTP 400 answers all carry a JSON body (C9): every
\* date has exactly one outcome.
C26_EveryDateOneOutcomeWhenBodiesDecode ==
    (fetch_check.done
        /\ \A i \in 1..Len(fetch_check.results) :
               ~error_msg_raises(fetch_check.results[i])) =>
        C26_EveryDateOneOutcome

\* The enriched batch of the call in slot p: one row for every day that was
\* fetched.
Batch(p) ==
    LET oks == {i \in 1..Len(results[p]) : results[p][i].kind = "ok"}
    IN IF pc[p] \in {"fetched", "returned"} /\ oks /= {}
       THEN SeqToBag(
                [i \in 1..Len(fetched[p].api_results) |->
                    WeatherDailySummary(
                        process_data(<<fetched[p].api_results[i]>>)[1])])
       ELSE EmptyBag

\* C27: the rows of one get_weather_data call are persisted all or nothing:
\* every change of the store adds the whole enriched batch of one call that
\* returned, a failure between the bulk insert and the commit stores none of
\* the batch, and the rows stored before are still there.
C27_BatchStoredAllOrNothing ==
    [][/\ store \sqsubseteq store'
       /\ store' /= store =>
              \E p \in Procs :
                  /\ pc[p] = "returned"
                  /\ store' = store (+) Batch(p)
       /\ \A p \in Procs :
              (pc[p] = "returned" /\ pc'[p] = "idle") =>
                  store' \in {store, store (+) Batch(p)}]_vars

\* C27's case: the first call's batch of two rows has been committed whole
\* (the rows carry the latitude of their documents, which no row of the
\* store had before).
C27_TwoRowBatchCommitted ==
    /\ calls = 1
    /\ \A p \in Procs : pc[p] = "idle"
    /\ BagCardinality(BagFilter(store, {r \in DOMAIN store :
                                            r.latitude = 41})) = 2

\* C28: within one get_weather_data invocation the store is read exactly
\* once, before every upstream fetch and before the store write; the steps
\* come in the order read, fetch, enrich and write, merge; and no date is
\* both missing and present within the invocation.
C28_ReadOnceThenFetchThenWrite ==
    [][\A p \in Procs :
          LET new == did'[p] \ did[p]
          IN /\ "read" \in new =>
                    pc[p] = "idle" /\ did[p] \cap {"fetch", "write"} = {}
             /\ "fetch" \in new =>
                    /\ pc[p] = "fetching"
                    /\ "read" \in did[p]
                    /\ "write" \notin did[p]
             /\ "write" \in new =>
                    /\ pc[p] = "fetched"
                    /\ {"read", "fetch"} \subseteq did[p]
             /\ ("read" \in did[p] /\ pc'[p] /= "idle") =>
                    /\ missing'[p] = missing[p]
                    /\ \/ existing'[p] = existing[p]
                       \/ pc[p] = "fetched" /\ pc'[p] = "returned"
             /\ pc'[p] \in {"fetching", "fetched"} =>
                    Range(missing'[p])
                        \cap {existing'[p][i].date :
                                  i \in 1..Len(existing'[p])} = {}]_vars

\* C28's case: a call has read a stored row, fetched the date that was
\* missing, written its row and merged the two.
C28_ReadFetchedWrittenMerged ==
    \E p \in Procs :
        /\ pc[p] = "returned"
        /\ did[p] = {"read", "fetch", "write"}
        /\ Len(missing[p]) = 1
        /\ Len(response[p].weather_data) = 2
        /\ pending[p] /= EmptyBag

\* The rows of the days the call in slot p fetched successfully, one a day.
FetchedRows(p) ==
    LET oks == SelectSeq(results[p], LAMBDA r : r.kind = "ok")
    IN SeqToBag([i \in 1..Len(oks) |->
                    WeatherDailySummary(process_data(<<oks[i].body>>)[1])])

\* C29: an invocation calls the bulk insert at most once, and only when at
\* least one day was fetched successfully; the batch holds exactly one row
\* for every successfully fetched day; when no day succeeds or no day is
\* missing, nothing is written.
C29_OneInsertOfFetchedDays ==
    [][\A p \in Procs :
          /\ "write" \in did'[p] \ did[p] =>
                 /\ pc[p] = "fetched"
                 /\ FetchedRows(p) /= EmptyBag
                 /\ pending[p] = EmptyBag
                 /\ pc'[p] = "returned" => pending'[p] = FetchedRows(p)
          /\ (pending'[p] /= pending[p] /\ pc'[p] /= "idle") =>
                 "write" \in did'[p] \ did[p]
          /\ (pc[p] = "fetched" /\ pc'[p] = "returned"
                 /\ FetchedRows(p) = EmptyBag) =>
                 /\ pending'[p] = EmptyBag
                 /\ "write" \notin did'[p]
          /\ (pc[p] = "returned" /\ pc'[p] = "idle") =>
                 store' \in {store, store (+) FetchedRows(p)}]_vars

\* C29's case: of two missing days one was fetched and one failed, and the
\* call has inserted the one row.
C29_OneOfTwoDaysInserted ==
    \E p \in Procs :
        /\ pc[p] = "returned"
        /\ Len(missing[p]) = 2
        /\ Cardinality(FailedDays(p)) = 1
        /\ "write" \in did[p]
        /\ BagCardinality(pending[p]) = 1

\* The keys of the rows of a table.
Keys(rows) ==
    {<<r.latitude, r.longitude, r.date>> : r \in DOMAIN rows}

\* C30: get_weather_data never updates or deletes a stored row: whether the
\* call succeeds, reports per-day errors or raises, every row stored before
\* a step is stored unchanged after it, and the key set of the store only
\* grows.
C30_StoredRowsNeverChange ==
    [][/\ \A r \in DOMAIN store :
              /\ r \in DOMAIN store'
              /\ store'[r] >= store[r]
       /\ Keys(store) \subseteq Keys(store')
       /\ \A p \in Procs :
              (pc[p] = "raised") /= (pc'[p] = "raised") => store' = store]_vars

\* C30's case: a call has inserted a row under a key that was stored
\* already, and the row stored before is still there next to it.
C30_StoredRowKeptNextToNewRow ==
    /\ \A p \in Procs : pc[p] = "idle"
    /\ \E r \in DOMAIN store : store[r] = 2

\* C31: a unit suspended on the limiter never keeps an admitted unit from
\* completing its HTTP call and delivering its outcome; admission is the
\* only point where a unit is held back (a waiting unit goes on as soon as
\* the bucket has capacity), and nothing else caps the calls in flight.
C31_WaitersBlockNoAdmittedUnit ==
    gather.state = "gathering" =>
        \A i \in DOMAIN gather.unit :
            /\ gather.unit[i] = "in_flight" => ENABLED Complete(i)
            /\ (gather.unit[i] = "waiting" /\ has_capacity(1)) =>
                   ENABLED Admit(i)
            /\ (gather.unit[i] = "waiting" /\ ~has_capacity(1)) =>
                   ~ENABLED Admit(i)

\* C31's case: one unit waits on a full bucket while an admitted unit has
\* delivered and another is in flight.
C31_DeliveredWhileAnotherWaits ==
    /\ gather.state = "gathering"
    /\ ~has_capacity(1)
    /\ \E i, j, k \in DOMAIN gather.unit :
           /\ gather.unit[i] = "waiting"
           /\ gather.unit[j] = "done"
           /\ gather.unit[k] = "in_flight"

\* C32: fetch_weather_data returns its result rows, and separately its error
\* entries, in the order of the dates list, whatever the order in which the
\* day fetches complete; an unsorted list is answered in that same order.
C32_OutcomesInRequestOrder ==
    gather.state = "returned" =>
        LET dates == gather.dates
            out   == gather.out
            at(d) == CHOOSE i \in 1..Len(dates) : dates[i] = d
        IN /\ \A j, k \in 1..Len(out.api_results) :
                  j < k => at(out.api_results[j].date)
                               < at(out.api_results[k].date)
           /\ \A j, k \in 1..Len(out.api_errors) :
                  j < k => at(out.api_errors[j].date)
                               < at(out.api_errors[k].date)
           /\ {out.api_results[j].date : j \in 1..Len(out.api_results)}
                  = {dates[i] : i \in {n \in 1..Len(dates) :
                                           gather.results[n].kind = "ok"}}
           /\ {out.api_errors[j].date : j \in 1..Len(out.api_errors)}
                  = {dates[i] : i \in {n \in 1..Len(dates) :
                                           gather.results[n].kind /= "ok"}}

\* C32's case: the call returned two rows for a descending list of dates,
\* the later unit having delivered first.
C32_UnsortedListOutOfOrderCompletion ==
    /\ gather.state = "returned"
    /\ gather.inverted
    /\ Len(gather.out.api_results) >= 2
    /\ gather.dates[1] > gather.dates[2]
    /\ gather.out.api_results[1].date = gather.dates[1]

\* The derived columns of a daily summary.
DerivedFields ==
    {"temp_range", "temp_variability_index", "season", "extreme_temperature",
     "extreme_precipitation", "extreme_wind", "humidex",
     "precipitation_intensity", "wind_chill", "heat_index"}

\* C33: every row of weather_data exposes all derived fields of the daily
\* summary, wind_chill (null when not applicable) and heat_index included,
\* with the values computed and persisted for the row.
C33_ResponseExposesDerivedFields ==
    \A i \in 1..Len(enrich_check.responses) :
        LET row  == enrich_check.outs[1].rows[i]
            data == enrich_check.responses[i]
        IN /\ DerivedFields \subseteq DOMAIN data
           /\ \A f \in DerivedFields \cap DOMAIN data : data[f] = row[f]

\* C33 for the fields the schema has: a response row carries the row's value
\* of every derived field other than wind_chill and heat_index.
C33_ResponseExposesSchemaFields ==
    \A i \in 1..Len(enrich_check.responses) :
        LET row  == enrich_check.outs[1].rows[i]
            data == enrich_check.responses[i]
        IN /\ DerivedFields \ {"wind_chill", "heat_index"} \subseteq DOMAIN data
           /\ \A f \in DerivedFields \cap DOMAIN data : data[f] = row[f]
           /\ "wind_chill" \notin DOMAIN data
           /\ "heat_index" \notin DOMAIN data

\* C34: every row get_weather_data(lat, lon, start, end) persists is stored
\* under the requested key, whatever the upstream document carries: its
\* latitude is lat, its longitude is lon, and its date is the missing date
\* it was fetched for, so that a later lookup with the same arguments finds
\* it.
C34_RowsStoredUnderRequestedKey ==
    \A p \in Procs :
        pc[p] = "returned" =>
            /\ \A r \in DOMAIN pending[p] :
                   /\ r.latitude = args[p].latitude
                   /\ r.longitude = args[p].longitude
                   /\ r.date \in Range(missing[p])
            /\ \A i \in 1..Len(missing[p]) :
                   results[p][i].kind = "ok" =>
                       BagIn([latitude  |-> args[p].latitude,
                              longitude |-> args[p].longitude,
                              date      |-> missing[p][i]], pending[p])

\* C35: for every get_weather_data(lat, lon, start, end) call with an
\* accepted range that returns, every date of [start, end] is accounted for
\* exactly once, by a row of weather_data or by an entry of errors, never by
\* both and never by neither; and no row or entry refers to a date outside
\* [start, end].
C35_EveryDateAccountedOnce ==
    \A p \in Procs :
        pc[p] = "returned" =>
            LET data   == response[p].weather_data
                errors == response[p].errors
                rows(d)    == {i \in 1..Len(data) : data[i].date = d}
                entries(d) == {i \in 1..Len(errors) : errors[i].date = d}
                range  == args[p].start_date..args[p].end_date
            IN /\ \A d \in range :
                      Cardinality(rows(d)) + Cardinality(entries(d)) = 1
               /\ \A i \in 1..Len(data) : data[i].date \in range
               /\ \A i \in 1..Len(errors) : errors[i].date \in range

\* The call in slot p was rejected for its date range.
RangeRejected(p) ==
    pc[p] = "raised" /\ exc[p].type = "WeatherServiceInputError"

\* C36: in get_weather_data and get_weather_data_by_name the date-range
\* check comes before every effect: when the range is rejected, no geocoding
\* call, no store read, no day-summary fetch and no store write has happened,
\* and none happens afterwards.
C36_RangeCheckedBeforeAnyEffect ==
    [][\A p \in Procs :
          /\ (pc'[p] = "raised"
                 /\ exc'[p].type = "WeatherServiceInputError") =>
                 /\ did'[p] = {}
                 /\ geocoding'[p] = NoGeocoding
                 /\ existing'[p] = <<>>
                 /\ results'[p] = <<>>
                 /\ pending'[p] = EmptyBag
          /\ RangeRejected(p) =>
                 /\ store' = store
                 /\ did'[p] = {}
                 /\ pc'[p] \in {"raised", "idle"}]_vars

\* C36's case: a call by name over a range that is too long has been
\* rejected, next to a store that holds rows of an earlier call.
C36_ByNameRejectedBeforeGeocoding ==
    \E p \in Procs :
        /\ RangeRejected(p)
        /\ ByName(p)
        /\ did[p] = {}
        /\ store /= EmptyBag

\* Every unit of the gather has passed the limiter.
AllAdmitted ==
    \A i \in DOMAIN gather.unit : gather.unit[i] /= "waiting"

\* C37: when time advances and every HTTP call ends, every unit waiting on
\* the limiter is eventually admitted and fetch_weather_data eventually
\* returns, for every list of dates, also one longer than the limiter's
\* budget.
C37_AdmittedAndReturnsEventually ==
    /\ <>AllAdmitted
    /\ <>(gather.state = "returned")

\* Every unit is eventually admitted and the call eventually ends: it
\* returns, or raises out of the loop that builds the error messages.
C37_AdmittedAndEndsEventually ==
    /\ <>AllAdmitted
    /\ <>(gather.state \in {"returned", "raised"})

\* The call never ends by raising unless the message of a unit's outcome
\* cannot be built (an HTTP 400 whose body is no JSON document).
C37_RaisesOnlyOnUndecodableBody ==
    gather.state = "raised" =>
        \E i \in DOMAIN gather.results : error_msg_raises(gather.results[i])

====
